---- MODULE Spec2Model ----
(***************************************************************************)
(* A model of cfddns, the Cloudflare dynamic-DNS updater.                  *)
(*                                                                         *)
(* The repository holds two implementations of DNSUpdater.Run:             *)
(*   - src/unnamed/part_003: Run on top of IPDetector                      *)
(*     (src/internal/ipdetector.go) and CloudflareClient                   *)
(*     (src/unnamed/part_002);                                             *)
(*   - src/internal/updater.go: a self-contained Run with its own          *)
(*     detection and HTTP code.                                            *)
(* Both are modelled; the variable impl says which one a behaviour runs.   *)
(*                                                                         *)
(* Strings that the code inspects character by character (addresses,       *)
(* response bodies) are sequences of one-character strings.  Opaque        *)
(* strings (record identifiers, the hostname, status texts) are TLA+       *)
(* strings.                                                                *)
(***************************************************************************)
EXTENDS Integers, Sequences, FiniteSets, TLC

VARIABLES
    runNo,       \* the number of the invocation of the program
    prev,        \* what the previous invocation resolved and how it ended
    args,        \* main: the values of -zone-id, -api-token and -hostname
    proc,        \* main: position of the program
    printed,     \* main: the lines written to standard output
    exit,        \* main: <<>> while running, <<code>> once exited
    host,        \* the result of net.Interfaces() the run has read
    ctx,         \* Run's context: <<>>, or <<where the deadline expired>>
    impl,        \* which implementation of Run this behaviour executes
    IPAddr,      \* DNSUpdater.IPAddr: the explicit address, <<>> when none
    cfgIPv6,     \* the enableIPv6 argument NewDNSUpdater was called with
    EnableIPv6,  \* DNSUpdater.EnableIPv6, the field Run reads and writes
    zone,        \* the provider's records: [A |-> list, AAAA |-> list]
    zone0,       \* the provider's records when the run started
    pc,          \* position of the run
    svc,         \* index of the detection endpoint the loop is at
    resp,        \* the HTTP response of the detection request in flight
    ipv4,        \* local ipv4 of Run / detectIPs
    ipv6,        \* local ipv6 of Run / detectIPs
    v4Record,    \* local v4Record (NoRecord when nil)
    v6Record,    \* local v6Record (NoRecord when nil)
    v4Success,   \* locals of updateRecords
    v4Err,
    v6Success,
    v6Err,
    calls,       \* every outbound call and detector invocation, in order
    status,      \* the string Run returned
    err          \* the error Run returned, Nil when nil

vars ==
    <<runNo, prev, args, proc, printed, exit, host, ctx, impl, IPAddr, cfgIPv6,
      EnableIPv6, zone, zone0, pc, svc, resp, ipv4, ipv6, v4Record, v6Record, v4Success,
      v4Err, v6Success, v6Err, calls, status, err>>

\* What the steps of Run leave alone.
fixed == <<runNo, prev, args, proc, printed, exit, ctx>>

----------------------------------------------------------------------------
(* Character strings *)

Digit == {"0", "1", "2", "3", "4", "5", "6", "7", "8", "9"}

HexLetter == {"a", "b", "c", "d", "e", "f", "A", "B", "C", "D", "E", "F"}

Space == {" ", "\n", "\t", "\r"}

DigitVal(c) ==
    CASE c = "0" -> 0 [] c = "1" -> 1 [] c = "2" -> 2 [] c = "3" -> 3
      [] c = "4" -> 4 [] c = "5" -> 5 [] c = "6" -> 6 [] c = "7" -> 7
      [] c = "8" -> 8 [] c = "9" -> 9

HexVal(c) ==
    CASE c \in Digit -> DigitVal(c)
      [] c \in {"a", "A"} -> 10 [] c \in {"b", "B"} -> 11
      [] c \in {"c", "C"} -> 12 [] c \in {"d", "D"} -> 13
      [] c \in {"e", "E"} -> 14 [] c \in {"f", "F"} -> 15

\* The positions of s that hold the character sep.
Positions(s, sep) == {i \in 1..Len(s) : s[i] = sep}

\* The position of the k-th occurrence of sep in s; 0 for k = 0 and
\* Len(s) + 1 for an occurrence s does not have.
Occurrence(s, sep, k) ==
    IF k = 0 THEN 0
    ELSE IF k > Cardinality(Positions(s, sep)) THEN Len(s) + 1
    ELSE CHOOSE i \in Positions(s, sep) :
             Cardinality({j \in Positions(s, sep) : j <= i}) = k

\* strings.Split on a one-character separator: the fields between them.
Split(s, sep) ==
    [k \in 1..(Cardinality(Positions(s, sep)) + 1) |->
        SubSeq(s, Occurrence(s, sep, k - 1) + 1, Occurrence(s, sep, k) - 1)]

\* strings.TrimSpace: s without its leading and trailing white space.
TrimSpace(s) ==
    LET keep == {i \in 1..Len(s) : s[i] \notin Space}
    IN IF keep = {}
       THEN <<>>
       ELSE LET lo == CHOOSE i \in keep : \A j \in keep : i <= j
                hi == CHOOSE i \in keep : \A j \in keep : j <= i
            IN SubSeq(s, lo, hi)

----------------------------------------------------------------------------
(* Address validation: IsIPv4, IsIPv6 and Go's net.ParseIP *)

AllIn(p, S) == \A i \in 1..Len(p) : p[i] \in S

\* One octet of the regular expression of IsIPv4:
\*   25[0-5] | (2[0-4] | 1{0,1}[0-9]){0,1}[0-9]
OctetRe(p) ==
    /\ AllIn(p, Digit)
    /\ \/ Len(p) = 1
       \/ Len(p) = 2
       \/ Len(p) = 3 /\ p[1] = "1"
       \/ Len(p) = 3 /\ p[1] = "2" /\ p[2] \in {"0", "1", "2", "3", "4"}
       \/ Len(p) = 3 /\ p[1] = "2" /\ p[2] = "5"
                     /\ p[3] \in {"0", "1", "2", "3", "4", "5"}

\* IsIPv4: the whole string matches ^(octet\.){3,3}octet$ .  An octet holds
\* digits only, so the match is: four fields between dots, each an octet.
IsIPv4(ip) ==
    LET parts == Split(ip, ".")
    IN /\ Len(parts) = 4
       /\ \A i \in 1..4 : OctetRe(parts[i])

RECURSIVE DecVal(_)
DecVal(p) ==
    IF p = <<>> THEN 0
    ELSE 10 * DecVal(SubSeq(p, 1, Len(p) - 1)) + DigitVal(p[Len(p)])

RECURSIVE HexNum(_)
HexNum(p) ==
    IF p = <<>> THEN 0
    ELSE 16 * HexNum(SubSeq(p, 1, Len(p) - 1)) + HexVal(p[Len(p)])

\* The result of net.ParseIP is nil (NilIP) or the 16-byte form of the
\* address, held here as its eight 16-bit groups.
NilIP == <<>>

\* One decimal field of Go's IPv4 parser: digits, no leading zero, <= 255.
GoOctet(p) ==
    /\ p # <<>>
    /\ Len(p) <= 3
    /\ AllIn(p, Digit)
    /\ (Len(p) > 1 => p[1] # "0")
    /\ DecVal(p) <= 255

GoIPv4(s) ==
    LET parts == Split(s, ".")
    IN /\ Len(parts) = 4
       /\ \A i \in 1..4 : GoOctet(parts[i])

\* The two 16-bit groups a dotted quad fills.
V4Groups(s) ==
    LET parts == Split(s, ".")
    IN <<256 * DecVal(parts[1]) + DecVal(parts[2]),
         256 * DecVal(parts[3]) + DecVal(parts[4])>>

HexField(p) == p # <<>> /\ Len(p) <= 4 /\ AllIn(p, Digit \cup HexLetter)

RECURSIVE FieldGroups(_)
\* The groups of a sequence of valid fields, a dotted quad giving two.
FieldGroups(fs) ==
    IF fs = <<>> THEN <<>>
    ELSE (IF "." \in {Head(fs)[i] : i \in 1..Len(Head(fs))}
          THEN V4Groups(Head(fs))
          ELSE <<HexNum(Head(fs))>>) \o FieldGroups(Tail(fs))

Zeros(n) == [i \in 1..n |-> 0]

\* Go's IPv6 parser, the address put together: with a "::" (ell) the
\* groups on its two sides and the zeros between them, without one the
\* eight groups.
V6Assemble(ell, left, right) ==
    LET count == Len(left) + Len(right)
    IN IF ell /\ count <= 7 THEN left \o Zeros(8 - count) \o right
       ELSE IF ~ell /\ count = 8 THEN right
       ELSE NilIP

\* Go's IPv6 parser, the fields fs between the colons: lead says that the
\* literal began with "::", empty holds the positions of the empty fields.
V6Fields(lead, fs, empty) ==
    LET n      == Len(fs)
        inner  == Cardinality(empty) = 1 /\ empty \subseteq 2..(n - 1)
        trail  == n >= 3 /\ empty = {n - 1, n}
        shape  == IF lead THEN empty = {}
                  ELSE empty = {} \/ inner \/ trail
        last   == CHOOSE i \in (1..n) \ empty :
                      \A j \in (1..n) \ empty : j <= i
        fieldOK(i) == \/ HexField(fs[i])
                      \/ i = n /\ i = last /\ GoIPv4(fs[i])
        cut    == IF empty = {} THEN 0
                  ELSE CHOOSE i \in empty : \A j \in empty : i <= j
    IN IF ~shape \/ ~(\A i \in (1..n) \ empty : fieldOK(i)) THEN NilIP
       ELSE V6Assemble(lead \/ empty # {},
                       IF lead \/ empty = {} THEN <<>>
                       ELSE FieldGroups(SubSeq(fs, 1, cut - 1)),
                       IF lead \/ empty = {} THEN FieldGroups(fs)
                       ELSE IF trail THEN <<>>
                       ELSE FieldGroups(SubSeq(fs, cut + 1, n)))

\* The positions of the empty fields of fs.
EmptyFields(fs) == {i \in 1..Len(fs) : fs[i] = <<>>}

\* The fields of rest, the literal after a leading "::" if it has one.
V6Split(lead, rest) ==
    CHOOSE ip \in {V6Fields(lead, fs, EmptyFields(fs)) :
                       fs \in {Split(rest, ":")}} : TRUE

\* Go's IPv6 parser: colon-separated fields of one to four hex digits, at
\* most one "::" that stands for at least one group of zeros, and
\* optionally a dotted quad as the last field.
ParseIPv6(s) ==
    IF Len(s) >= 2 /\ s[1] = ":" /\ s[2] = ":"
    THEN IF Len(s) = 2 THEN Zeros(8)
         ELSE V6Split(TRUE, SubSeq(s, 3, Len(s)))
    ELSE V6Split(FALSE, s)

\* net.ParseIP: the first "." or ":" decides the family to parse; a dotted
\* quad comes back in its IPv4-mapped 16-byte form.
ParseIP(s) ==
    LET seps == Positions(s, ".") \cup Positions(s, ":")
        f    == CHOOSE i \in seps : \A j \in seps : i <= j
    IN IF seps = {} THEN NilIP
       ELSE IF s[f] = "."
       THEN IF GoIPv4(s) THEN Zeros(5) \o <<65535>> \o V4Groups(s) ELSE NilIP
       ELSE ParseIPv6(s)

\* IP.To4() # nil for a 16-byte address: ten zero bytes, then ff ff.
To4(ip) == (\A i \in 1..5 : ip[i] = 0) /\ ip[6] = 65535

\* IsIPv6: parsedIP != nil && parsedIP.To4() == nil
IsIPv6(ip) ==
    \E s \in {ip} :
       \E parsedIP \in {ParseIP(s)} : parsedIP # NilIP /\ ~To4(parsedIP)

----------------------------------------------------------------------------
(* Local network interfaces: detectIPv6FromInterfaces *)

\* An address of an interface is held as its eight 16-bit groups, the form
\* To4, IsLinkLocalUnicast, IsGlobalUnicast and String work on.

\* IP.IsLinkLocalUnicast for a 16-byte address: fe80::/10.
IsLinkLocalUnicast(ip) == ~To4(ip) /\ ip[1] \div 64 = 1018

\* IP.IsGlobalUnicast for a 16-byte address that is not IPv4: not the
\* unspecified address, not loopback, not multicast, not link-local.
IsGlobalUnicast(ip) ==
    /\ ip # Zeros(8)
    /\ ip # Zeros(7) \o <<1>>
    /\ ip[1] \div 256 # 255
    /\ ~IsLinkLocalUnicast(ip)

HexDigits == <<"0", "1", "2", "3", "4", "5", "6", "7",
               "8", "9", "a", "b", "c", "d", "e", "f">>

RECURSIVE HexStr(_)
\* A group in lower-case hexadecimal without leading zeros.
HexStr(n) ==
    IF n < 16 THEN <<HexDigits[n + 1]>>
    ELSE HexStr(n \div 16) \o <<HexDigits[(n % 16) + 1]>>

RECURSIVE JoinGroups(_)
JoinGroups(gs) ==
    IF gs = <<>> THEN <<>>
    ELSE IF Len(gs) = 1 THEN HexStr(gs[1])
    ELSE HexStr(gs[1]) \o <<":">> \o JoinGroups(Tail(gs))

\* The length of the run of zero groups that starts at group i.
ZeroRun(ip, i) ==
    LET ends == {j \in i..9 : \A k \in i..(j - 1) : ip[k] = 0}
    IN (CHOOSE j \in ends : \A k \in ends : k <= j) - i

\* IP.String for a 16-byte address that is not IPv4: the leftmost longest
\* run of two or more zero groups is written "::".
IPString(ip) ==
    LET best == CHOOSE i \in 1..8 :
                    /\ \A j \in 1..8 : ZeroRun(ip, j) <= ZeroRun(ip, i)
                    /\ \A j \in 1..(i - 1) : ZeroRun(ip, j) < ZeroRun(ip, i)
        run  == ZeroRun(ip, best)
    IN IF run < 2 THEN JoinGroups(ip)
       ELSE JoinGroups(SubSeq(ip, 1, best - 1)) \o <<":", ":">>
            \o JoinGroups(SubSeq(ip, best + run, 8))

\* An interface: [up, loopback, addrsErr, addrs], addrs a list of
\* [ipnet, ip]: ipnet says that the net.Addr is a *net.IPNet.
RECURSIVE ScanAddrs(_)
\* The inner loop: the first address that qualifies, <<>> when none does.
ScanAddrs(addrs) ==
    IF addrs = <<>> THEN <<>>
    ELSE LET a == Head(addrs)
         IN IF ~a.ipnet THEN ScanAddrs(Tail(addrs))
            ELSE IF To4(a.ip) \/ IsLinkLocalUnicast(a.ip)
            THEN ScanAddrs(Tail(addrs))
            ELSE IF IsGlobalUnicast(a.ip) THEN IPString(a.ip)
            ELSE ScanAddrs(Tail(addrs))

RECURSIVE ScanInterfacesAll(_)
\* An outer loop that looks at interfaces that are down or loopback too.
ScanInterfacesAll(ifaces) ==
    IF ifaces = <<>> THEN <<>>
    ELSE LET iface == Head(ifaces)
         IN IF iface.addrsErr THEN ScanInterfacesAll(Tail(ifaces))
            ELSE IF ScanAddrs(iface.addrs) # <<>> THEN ScanAddrs(iface.addrs)
            ELSE ScanInterfacesAll(Tail(ifaces))

RECURSIVE ScanInterfaces(_)
\* The outer loop: interfaces that are down or loopback, or whose Addrs()
\* fails, are skipped.
ScanInterfaces(ifaces) ==
    IF ifaces = <<>> THEN <<>>
    ELSE LET iface == Head(ifaces)
         IN IF ~iface.up \/ iface.loopback THEN ScanInterfaces(Tail(ifaces))
            ELSE IF iface.addrsErr THEN ScanInterfaces(Tail(ifaces))
            ELSE IF ScanAddrs(iface.addrs) # <<>> THEN ScanAddrs(iface.addrs)
            ELSE ScanInterfaces(Tail(ifaces))

\* detectIPv6FromInterfaces: h is [err, ifaces], the result of
\* net.Interfaces().  The result is [ip, err].
detectIPv6FromInterfaces(h) ==
    IF h.err THEN [ip |-> <<>>, err |-> <<"net.Interfaces">>]
    ELSE IF ScanInterfaces(h.ifaces) # <<>>
    THEN [ip |-> ScanInterfaces(h.ifaces), err |-> <<>>]
    ELSE [ip |-> <<>>,
          err |-> <<"no suitable IPv6 address found on interfaces">>]

----------------------------------------------------------------------------
(* Values *)

StatusNoChange == "no changes needed"

StatusGood == "update successful"

StatusAuthError == "authentication error"

RecordTypeA == "A"

RecordTypeAAAA == "AAAA"

\* The status strings of src/internal/updater.go.
LegacyFailed == "authentication_failed"

LegacyNoStatus == ""

\* A nil error.  An error is the list of its messages, outermost first.
Nil == <<>>

\* fmt.Errorf("msg: %w", e)
Wrap(msg, e) == <<msg>> \o e

\* The endpoints of DetectIPv4 and DetectIPv6, in the order tried.
ipv4Services ==
    <<"https://api.ipify.org", "https://v4.ident.me/",
      "https://ipv4.icanhazip.com/">>

ipv6Services ==
    <<"https://api6.ipify.org", "https://v6.ident.me/",
      "https://ipv6.icanhazip.com/">>

\* The configured hostname (one value: the code only passes it on).
Hostname == "host.example.com"

\* The addresses of the model.
Addr4a == <<"1", ".", "2", ".", "3", ".", "4">>

Addr4b == <<"1", ".", "2", ".", "3", ".", "5">>

Addr6a == <<"2", "0", "0", "1", ":", "d", "b", "8", ":", ":", "1">>

Addr6b == <<"2", "0", "0", "1", ":", "d", "b", "8", ":", ":", "2">>

Garbage == <<"a", "b", "c">>

\* The largest dotted quad, and the loopback address of IPv6.
Addr4max ==
    <<"2", "5", "5", ".", "2", "5", "5", ".", "2", "5", "5", ".",
      "2", "5", "5">>

Addr6lo == <<":", ":", "1">>

\* Strings that are no address for the code: a dotted triple, an
\* IPv4-mapped IPv6 literal, an octet of 256, an octet written 001, five
\* octets, white space before or after an address, and text.
Malformed ==
    {<<"1", ".", "2", ".", "3">>,
     <<":", ":", "f", "f", "f", "f", ":">> \o Addr4a,
     <<"2", "5", "6", ".", "1", ".", "1", ".", "1">>,
     <<"0", "0", "1", ".", "2", ".", "3", ".", "4">>,
     Addr4a \o <<".", "5">>,
     <<" ">> \o Addr4a,
     Addr4a \o <<"\n">>,
     Garbage}

\* The values of the -ip flag: none, IPv4 literals, IPv6 literals, and the
\* malformed ones.
ExplicitIPs == {<<>>, Addr4a, Addr4max, Addr6a, Addr6lo} \cup Malformed

\* A record of the zone, as the provider returns it.
Rec(id, content, proxied) ==
    [ID |-> id, Content |-> content, Proxied |-> proxied]

\* The record lists a run may find at the provider for each type.
ZoneChoices(t) ==
    LET cur == IF t = RecordTypeA THEN Addr4a ELSE Addr6a
        old == IF t = RecordTypeA THEN Addr4b ELSE Addr6b
        id1 == IF t = RecordTypeA THEN "a1" ELSE "b1"
        id2 == IF t = RecordTypeA THEN "a2" ELSE "b2"
    IN {<<>>}
       \cup {<<Rec(id1, c, p)>> : c \in {cur, old}, p \in BOOLEAN}
       \cup {<<Rec(id1, old, FALSE), Rec(id2, cur, TRUE)>>,
             <<Rec(id1, cur, FALSE), Rec(id2, old, TRUE)>>}

\* *DNSRecordInfo: nil, or a pointer to the fields of a record.
NilRecord == [nil |-> TRUE, ID |-> "", Content |-> <<>>, Proxied |-> FALSE]

RecordInfo(r) ==
    [nil |-> FALSE, ID |-> r.ID, Content |-> r.Content, Proxied |-> r.Proxied]

\* The response to a detection request: err is "" (a response came and its
\* body was read), "do" (client.Do failed) or "read" (io.ReadAll failed).
HTTPResp(e, code, body) == [err |-> e, code |-> code, body |-> body]

NoResp == HTTPResp("none", 0, <<>>)

Responses(addr, other) ==
    {HTTPResp("do", 0, <<>>), HTTPResp("read", 200, <<>>),
     HTTPResp("", 200, addr \o <<"\n">>), HTTPResp("", 200, Garbage),
     HTTPResp("", 200, other), HTTPResp("", 500, addr)}

Responses4 == Responses(Addr4a, Addr6a)

Responses6 == Responses(Addr6a, Addr4a)

\* What net.Interfaces() and Addrs() may report on the host.
Iface(up, loopback, addrsErr, addrs) ==
    [up |-> up, loopback |-> loopback, addrsErr |-> addrsErr, addrs |-> addrs]

IfAddr(ipnet, ip) == [ipnet |-> ipnet, ip |-> ip]

Global6b == <<8193, 3512, 0, 0, 0, 0, 0, 2>>

LinkLocal == <<65152, 0, 0, 0, 0, 0, 0, 1>>

Mapped4a == <<0, 0, 0, 0, 0, 65535, 258, 772>>

\* The value of host while the run has not read the interfaces (no
\* result of net.Interfaces() has an error and a list).
NoHost == [err |-> TRUE, ifaces |-> <<Iface(FALSE, FALSE, FALSE, <<>>)>>]

HostChoices ==
    {[err |-> TRUE, ifaces |-> <<>>],
     [err |-> FALSE, ifaces |-> <<>>],
     [err |-> FALSE,
      ifaces |-> <<Iface(TRUE, TRUE, FALSE, <<IfAddr(TRUE, Global6b)>>),
                   Iface(FALSE, FALSE, FALSE, <<IfAddr(TRUE, Global6b)>>),
                   Iface(TRUE, FALSE, TRUE, <<>>),
                   Iface(TRUE, FALSE, FALSE,
                         <<IfAddr(TRUE, Mapped4a), IfAddr(TRUE, LinkLocal)>>)>>],
     [err |-> FALSE,
      ifaces |-> <<Iface(TRUE, FALSE, FALSE,
                         <<IfAddr(FALSE, Global6b), IfAddr(TRUE, Mapped4a),
                           IfAddr(TRUE, LinkLocal), IfAddr(TRUE, Global6b)>>)>>]}

\* How a request to the provider ends: the transport fails, the payload
\* does not parse, the payload says success=false, or success=true.
ProviderOutcomes == {"transport", "unparsable", "rejected", "ok"}

\* The error GetDNSRecords returns: success=false is an error.
ListErr(o) ==
    CASE o = "transport" -> <<"execute request">>
      [] o = "unparsable" -> <<"unmarshal response">>
      [] o = "rejected" -> <<"cloudflare API request failed">>
      [] o = "ok" -> Nil

\* The error CreateDNSRecord and UpdateDNSRecord return: success=false
\* comes back as (false, nil).
MutateErr(o) ==
    CASE o = "transport" -> <<"execute request">>
      [] o = "unparsable" -> <<"unmarshal response">>
      [] o = "rejected" -> Nil
      [] o = "ok" -> Nil

\* An entry of the call log: the call and how it ended (out).  A request
\* to the provider ends in one of ProviderOutcomes; a detection request
\* ends "address" when the response carries an address of the family the
\* endpoint serves, and "none" otherwise.
Call(op, type, id, content, proxied, out) ==
    [op |-> op, type |-> type, id |-> id, name |-> Hostname,
     content |-> content, proxied |-> proxied, out |-> out, code |-> 0]

Invoke(op) == Call(op, "", "", <<>>, FALSE, "")

HasAddress(r, t) ==
    /\ r.err = ""
    /\ IF t = RecordTypeA THEN IsIPv4(TrimSpace(r.body))
       ELSE IsIPv6(TrimSpace(r.body))

\* The entry of a detection request: content is the address the response
\* carries and code the status it came with (both empty when the response
\* carries no address: the log does not tell those failures apart).
Request(url, r, t) ==
    IF HasAddress(r, t)
    THEN [Call("GET", t, url, TrimSpace(r.body), FALSE, "address")
          EXCEPT !.code = r.code]
    ELSE Call("GET", t, url, <<>>, FALSE, "none")

List(t, o) == Call("ListRecords", t, "", <<>>, FALSE, o)

----------------------------------------------------------------------------
(* The provider *)

\* The identifier the provider gives a record it creates.
NewID(t) == IF t = RecordTypeA THEN "a-new" ELSE "b-new"

\* The zone after a successful POST of a record.
ZoneAfterCreate(z, t, content, proxied) ==
    [z EXCEPT ![t] = Append(@, Rec(NewID(t), content, proxied))]

\* The zone after a successful PUT to the record id.
ZoneAfterUpdate(z, id, t, content, proxied) ==
    [z EXCEPT ![t] = [i \in 1..Len(@) |->
                         IF @[i].ID = id THEN Rec(id, content, proxied)
                         ELSE @[i]]]

----------------------------------------------------------------------------
(* DNSUpdater of src/unnamed/part_003 *)

Part003 == "part_003"

Legacy == "updater.go"

\* A request to the provider made with a context that does not carry the
\* deadline of the run.
OutcomesUnbound(c) == ProviderOutcomes

\* How a request to the provider made with the context c may end: once the
\* deadline has expired client.Do fails.
Outcomes(c) == IF c # <<>> THEN {"transport"} ELSE ProviderOutcomes

\* The responses a detection request made with the context c may get out
\* of R: once the deadline has expired client.Do fails.
Arrivals(c, R) == IF c # <<>> THEN {HTTPResp("do", 0, <<>>)} ELSE R

\* Run returns (s, e).
Return(s, e) == pc' = "done" /\ status' = s /\ err' = e

\* A GetDNSRecords that leaves out the test of the success flag: a rejected
\* query gives the (empty) result of the payload.
GetDNSRecordsUnchecked(o, records) ==
    IF o = "ok" THEN [records |-> records, err |-> Nil]
    ELSE IF o = "rejected" THEN [records |-> <<>>, err |-> Nil]
    ELSE [records |-> <<>>, err |-> ListErr(o)]

\* GetDNSRecords for a request that ended o while the provider held the
\* list records: the pair (records, err) it returns.
GetDNSRecords(o, records) ==
    IF o = "ok" THEN [records |-> records, err |-> Nil]
    ELSE [records |-> <<>>, err |-> ListErr(o)]

\* A getCurrentRecord that takes the last record of the list.
getCurrentRecordLast(t, got) ==
    IF got.err # Nil
    THEN [record |-> NilRecord,
          err |-> Wrap(IF t = RecordTypeA THEN "get A records"
                       ELSE "get AAAA records", got.err)]
    ELSE IF Len(got.records) = 0 THEN [record |-> NilRecord, err |-> Nil]
    ELSE [record |-> RecordInfo(got.records[Len(got.records)]),
          err |-> Nil]

\* getCurrentRecord: the error of GetDNSRecords wrapped, nil when the list
\* is empty, the fields of records[0] otherwise.
getCurrentRecord(t, got) ==
    IF got.err # Nil
    THEN [record |-> NilRecord,
          err |-> Wrap(IF t = RecordTypeA THEN "get A records"
                       ELSE "get AAAA records", got.err)]
    ELSE IF Len(got.records) = 0 THEN [record |-> NilRecord, err |-> Nil]
    ELSE [record |-> RecordInfo(got.records[1]), err |-> Nil]

\* A test that does not compare the content of the record.
StaleAlways(ip, record) == ip # <<>>

\* The test updateRecords makes for a family: an address is there, and the
\* record is missing or holds something else.
Stale(ip, record) == ip # <<>> /\ (record.nil \/ record.Content # ip)

\* A needsUpdate that looks at the A record only.
needsUpdateIPv4Only(v4, v6, r4, r6, enable) == Stale(v4, r4)

\* A needsUpdate that always asks for an update.
needsUpdateAlways(v4, v6, r4, r6, enable) == TRUE

needsUpdate(v4, v6, r4, r6, enable) ==
    \/ Stale(v4, r4)
    \/ enable /\ Stale(v6, r6)

\* The end of updateRecords ("Handle errors"): the pair it returns.
updateResult(s4, e4, s6, e6) ==
    IF ~s4 /\ e4 # Nil
    THEN <<StatusAuthError, Wrap("update IPv4 record", e4)>>
    ELSE IF ~s6 /\ e6 # Nil
    THEN <<StatusAuthError, Wrap("update IPv6 record", e6)>>
    ELSE IF s4 \/ s6 THEN <<StatusGood, Nil>>
    ELSE <<StatusAuthError, <<"failed to update DNS records">>>>

\* An updateRecord that sends proxied=true with an update as well.
updateCallProxied(t, record, ipContent) ==
    IF record.nil
    THEN Call("CreateRecord", t, "", ipContent, TRUE, "")
    ELSE Call("UpdateRecord", t, record.ID, ipContent, TRUE, "")

\* An updateRecord that creates records with proxied=false.
updateCallUnproxied(t, record, ipContent) ==
    IF record.nil
    THEN Call("CreateRecord", t, "", ipContent, FALSE, "")
    ELSE Call("UpdateRecord", t, record.ID, ipContent, record.Proxied, "")

\* updateRecord: the call it makes for a record and an address.
updateCall(t, record, ipContent) ==
    IF record.nil
    THEN Call("CreateRecord", t, "", ipContent, TRUE, "")
    ELSE Call("UpdateRecord", t, record.ID, ipContent, record.Proxied, "")

\* The log entry of a call that ended o.
Ended(c, o) == [c EXCEPT !.out = o]

\* The zone after the call c succeeded.
ZoneAfter(z, c) ==
    IF c.op = "CreateRecord"
    THEN ZoneAfterCreate(z, c.type, c.content, c.proxied)
    ELSE ZoneAfterUpdate(z, c.id, c.type, c.content, c.proxied)

\* A second half of detectIPs that does not look at u.EnableIPv6.
DetectIPv6OrReturnAlways(enable, v6) ==
    IF v6 = <<>>
    THEN /\ pc' = "v6request"
         /\ svc' = 1
         /\ calls' = Append(calls, Invoke("DetectIPv6"))
    ELSE /\ pc' = "listA"
         /\ UNCHANGED <<svc, calls>>

\* detectIPs, second half: with IPv6 enabled and no IPv6 address yet,
\* DetectIPv6 is called; otherwise detectIPs returns and Run goes on to
\* query the A record.
DetectIPv6OrReturn(enable, v6) ==
    IF enable /\ v6 = <<>>
    THEN /\ pc' = "v6request"
         /\ svc' = 1
         /\ calls' = Append(calls, Invoke("DetectIPv6"))
    ELSE /\ pc' = "listA"
         /\ UNCHANGED <<svc, calls>>

\* A classification that takes whatever is no IPv6 literal for an IPv4
\* address.
classifyUnvalidated(ip, enable) ==
    IF IsIPv6(ip)
    THEN [ipv4 |-> <<>>, ipv6 |-> ip, enable |-> FALSE, err |-> Nil]
    ELSE [ipv4 |-> ip, ipv6 |-> <<>>, enable |-> enable, err |-> Nil]

\* A classification that leaves u.EnableIPv6 alone.
classifyKeepingIPv6(ip, enable) ==
    IF IsIPv4(ip)
    THEN [ipv4 |-> ip, ipv6 |-> <<>>, enable |-> enable, err |-> Nil]
    ELSE IF IsIPv6(ip)
    THEN [ipv4 |-> <<>>, ipv6 |-> ip, enable |-> enable, err |-> Nil]
    ELSE [ipv4 |-> <<>>, ipv6 |-> <<>>, enable |-> enable,
          err |-> <<"invalid IP address provided">>]

\* A classification that switches IPv6 off for an explicit IPv4 address
\* as well.
classifyIPv4Only(ip, enable) ==
    IF IsIPv4(ip)
    THEN [ipv4 |-> ip, ipv6 |-> <<>>, enable |-> FALSE, err |-> Nil]
    ELSE IF IsIPv6(ip)
    THEN [ipv4 |-> <<>>, ipv6 |-> ip, enable |-> FALSE, err |-> Nil]
    ELSE [ipv4 |-> <<>>, ipv6 |-> <<>>, enable |-> enable,
          err |-> <<"invalid IP address provided">>]

\* detectIPs for an explicit address: what becomes of ipv4, ipv6 and
\* u.EnableIPv6, and the error for an address of neither family.
classify(ip, enable) ==
    IF IsIPv4(ip)
    THEN [ipv4 |-> ip, ipv6 |-> <<>>, enable |-> enable, err |-> Nil]
    ELSE IF IsIPv6(ip)
    THEN [ipv4 |-> <<>>, ipv6 |-> ip, enable |-> FALSE, err |-> Nil]
    ELSE [ipv4 |-> <<>>, ipv6 |-> <<>>, enable |-> enable,
          err |-> <<"invalid IP address provided">>]

\* Run up to the first outbound call: detectIPs enters DetectIPv4, or
\* classifies the explicit address and goes on.
Start ==
    /\ pc = "start"
    /\ impl = Part003
    /\ proc = "run"
    /\ UNCHANGED <<fixed, host, impl, IPAddr, cfgIPv6, zone0, zone, resp, v4Record,
                   v6Record, v4Success, v4Err, v6Success, v6Err>>
    /\ IF IPAddr = <<>>
       THEN /\ pc' = "v4request"
            /\ svc' = 1
            /\ calls' = Append(calls, Invoke("DetectIPv4"))
            /\ UNCHANGED <<ipv4, ipv6, EnableIPv6, status, err>>
       ELSE LET given == classify(IPAddr, EnableIPv6)
            IN IF given.err # Nil
               THEN /\ Return(StatusAuthError,
                              Wrap("IP detection failed", given.err))
                    /\ UNCHANGED <<ipv4, ipv6, EnableIPv6, svc, calls>>
               ELSE /\ ipv4' = given.ipv4
                    /\ ipv6' = given.ipv6
                    /\ EnableIPv6' = given.enable
                    /\ DetectIPv6OrReturn(given.enable, given.ipv6)
                    /\ UNCHANGED <<status, err>>

\* DetectIPv4, one turn of the loop up to client.Do and io.ReadAll.
V4Request ==
    /\ pc = "v4request"
    /\ impl = Part003
    /\ proc = "run"
    /\ \E r \in Arrivals(ctx, Responses4) :
          /\ resp' = r
          /\ calls' = Append(calls, Request(ipv4Services[svc], r, RecordTypeA))
    /\ pc' = "v4response"
    /\ UNCHANGED <<fixed, host, impl, IPAddr, cfgIPv6, zone0, EnableIPv6, zone, svc, ipv4, ipv6,
                   v4Record, v6Record, v4Success, v4Err, v6Success, v6Err,
                   status, err>>

\* A turn of the loop that takes any body it could read.
DetectedIPv4Unvalidated(r) ==
    IF r.err = "" /\ TrimSpace(r.body) # <<>> THEN TrimSpace(r.body)
    ELSE <<>>

\* What a turn of the loop of DetectIPv4 makes of the response: the trimmed
\* body when it is an IPv4 address, <<>> when the turn continues.
DetectedIPv4(r) ==
    IF r.err = "" /\ IsIPv4(TrimSpace(r.body)) THEN TrimSpace(r.body)
    ELSE <<>>

\* A turn of the loop of DetectIPv6 that returns the body as it was read.
DetectedIPv6Untrimmed(r) ==
    IF r.err = "" /\ IsIPv6(TrimSpace(r.body)) THEN r.body
    ELSE <<>>

\* A turn of the loop of DetectIPv6 that takes an address of either family.
DetectedIPv6AnyFamily(r) ==
    IF r.err = "" /\ (IsIPv6(TrimSpace(r.body)) \/ IsIPv4(TrimSpace(r.body)))
    THEN TrimSpace(r.body)
    ELSE <<>>

\* The same for a turn of the loop of DetectIPv6.
DetectedIPv6(r) ==
    IF r.err = "" /\ IsIPv6(TrimSpace(r.body)) THEN TrimSpace(r.body)
    ELSE <<>>

\* A DetectIPv4 that goes through its endpoints a second time when none of
\* them gave an address.
V4ResponseAgain ==
    /\ pc = "v4response"
    /\ impl = Part003
    /\ proc = "run"
    /\ resp' = NoResp
    /\ UNCHANGED <<fixed, host, impl, IPAddr, cfgIPv6, zone0, EnableIPv6, zone, ipv6, v4Record,
                   v6Record, v4Success, v4Err, v6Success, v6Err>>
    /\ IF DetectedIPv4(resp) # <<>>
       THEN /\ ipv4' = DetectedIPv4(resp)
            /\ DetectIPv6OrReturn(EnableIPv6, ipv6)
            /\ UNCHANGED <<status, err>>
       ELSE IF svc < Len(ipv4Services)
       THEN /\ svc' = svc + 1
            /\ pc' = "v4request"
            /\ UNCHANGED <<ipv4, calls, status, err>>
       ELSE IF Len(calls) <= Len(ipv4Services) + 1
       THEN /\ svc' = 1
            /\ pc' = "v4request"
            /\ UNCHANGED <<ipv4, calls, status, err>>
       ELSE /\ Return(StatusAuthError,
                      Wrap("IP detection failed",
                           Wrap("detect IPv4",
                                <<"failed to detect public IPv4 address">>)))
            /\ UNCHANGED <<ipv4, svc, calls>>

\* DetectIPv4, the rest of the turn: return the address, go on to the next
\* endpoint, or fail after the last one; detectIPs and Run pass the
\* failure on.
V4Response ==
    /\ pc = "v4response"
    /\ impl = Part003
    /\ proc = "run"
    /\ resp' = NoResp
    /\ UNCHANGED <<fixed, host, impl, IPAddr, cfgIPv6, zone0, EnableIPv6, zone, ipv6, v4Record,
                   v6Record, v4Success, v4Err, v6Success, v6Err>>
    /\ IF DetectedIPv4(resp) # <<>>
       THEN /\ ipv4' = DetectedIPv4(resp)
            /\ DetectIPv6OrReturn(EnableIPv6, ipv6)
            /\ UNCHANGED <<status, err>>
       ELSE IF svc < Len(ipv4Services)
       THEN /\ svc' = svc + 1
            /\ pc' = "v4request"
            /\ UNCHANGED <<ipv4, calls, status, err>>
       ELSE /\ Return(StatusAuthError,
                      Wrap("IP detection failed",
                           Wrap("detect IPv4",
                                <<"failed to detect public IPv4 address">>)))
            /\ UNCHANGED <<ipv4, svc, calls>>

\* DetectIPv6, one turn of the loop up to client.Do and io.ReadAll.
V6Request ==
    /\ pc = "v6request"
    /\ impl = Part003
    /\ proc = "run"
    /\ \E r \in Arrivals(ctx, Responses6) :
          /\ resp' = r
          /\ calls' = Append(calls, Request(ipv6Services[svc], r, RecordTypeAAAA))
    /\ pc' = "v6response"
    /\ UNCHANGED <<fixed, host, impl, IPAddr, cfgIPv6, zone0, EnableIPv6, zone, svc, ipv4, ipv6,
                   v4Record, v6Record, v4Success, v4Err, v6Success, v6Err,
                   status, err>>

\* DetectIPv6, the rest of the turn: return the address, go on to the next
\* endpoint, or fall back to the interfaces after the last one.
V6Response ==
    /\ pc = "v6response"
    /\ impl = Part003
    /\ proc = "run"
    /\ resp' = NoResp
    /\ UNCHANGED <<fixed, host, impl, IPAddr, cfgIPv6, zone0, EnableIPv6, zone, ipv4, v4Record,
                   v6Record, v4Success, v4Err, v6Success, v6Err, calls,
                   status, err>>
    /\ IF DetectedIPv6(resp) # <<>>
       THEN /\ ipv6' = DetectedIPv6(resp)
            /\ pc' = "listA"
            /\ UNCHANGED svc
       ELSE IF svc < Len(ipv6Services)
       THEN /\ svc' = svc + 1
            /\ pc' = "v6request"
            /\ UNCHANGED ipv6
       ELSE /\ pc' = "interfaces"
            /\ UNCHANGED <<ipv6, svc>>

\* An end of detectIPs that leaves IPv6 on after a failed DetectIPv6.
AfterDetectIPv6Kept(enable, e) == enable

\* The end of detectIPs: u.EnableIPv6 after DetectIPv6 returned the error
\* e.  A failure of DetectIPv6 switches IPv6 off.
AfterDetectIPv6(enable, e) == IF e # Nil THEN FALSE ELSE enable

\* DetectIPv6, the fallback to the interfaces of the host, and the end of
\* detectIPs.
Interfaces ==
    /\ pc = "interfaces"
    /\ impl = Part003
    /\ proc = "run"
    /\ \E h \in HostChoices :
          LET found == detectIPv6FromInterfaces(h)
          IN /\ host' = h
             /\ ipv6' = found.ip
             /\ EnableIPv6' = AfterDetectIPv6(EnableIPv6, found.err)
    /\ calls' = Append(calls, Invoke("Interfaces"))
    /\ pc' = "listA"
    /\ UNCHANGED <<fixed, impl, IPAddr, cfgIPv6, zone0, zone, svc, resp, ipv4, v4Record,
                   v6Record, v4Success, v4Err, v6Success, v6Err, status, err>>

\* A step 2 that repeats the query for the A record once after it failed.
ListARetry ==
    /\ pc = "listA"
    /\ impl = Part003
    /\ proc = "run"
    /\ UNCHANGED <<fixed, host, impl, IPAddr, cfgIPv6, zone0, EnableIPv6, zone, svc, resp, ipv4,
                   ipv6, v6Record, v4Success, v4Err, v6Success, v6Err>>
    /\ \E o \in ProviderOutcomes :
          LET got == getCurrentRecord(RecordTypeA,
                                      GetDNSRecords(o, zone[RecordTypeA]))
              first == \A i \in 1..Len(calls) : calls[i].op # "ListRecords"
          IN /\ calls' = Append(calls, List(RecordTypeA, o))
             /\ IF got.err # Nil /\ first
                THEN UNCHANGED <<pc, v4Record, status, err>>
                ELSE IF got.err # Nil
                THEN /\ Return(StatusAuthError, got.err)
                     /\ UNCHANGED v4Record
                ELSE /\ v4Record' = got.record
                     /\ pc' = IF EnableIPv6 /\ ipv6 # <<>> THEN "listAAAA"
                              ELSE "needsUpdate"
                     /\ UNCHANGED <<status, err>>

\* Run, step 2: getCurrentRecord for the A record.  A failed query ends the
\* run.
ListA ==
    /\ pc = "listA"
    /\ impl = Part003
    /\ proc = "run"
    /\ UNCHANGED <<fixed, host, impl, IPAddr, cfgIPv6, zone0, EnableIPv6, zone, svc, resp, ipv4,
                   ipv6, v6Record, v4Success, v4Err, v6Success, v6Err>>
    /\ \E o \in Outcomes(ctx) :
          LET got == getCurrentRecord(RecordTypeA,
                                      GetDNSRecords(o, zone[RecordTypeA]))
          IN /\ calls' = Append(calls, List(RecordTypeA, o))
             /\ IF got.err # Nil
                THEN /\ Return(StatusAuthError, got.err)
                     /\ UNCHANGED v4Record
                ELSE /\ v4Record' = got.record
                     /\ pc' = IF EnableIPv6 /\ ipv6 # <<>> THEN "listAAAA"
                              ELSE "needsUpdate"
                     /\ UNCHANGED <<status, err>>

\* Run, step 2: getCurrentRecord for the AAAA record.
ListAAAA ==
    /\ pc = "listAAAA"
    /\ impl = Part003
    /\ proc = "run"
    /\ UNCHANGED <<fixed, host, impl, IPAddr, cfgIPv6, zone0, EnableIPv6, zone, svc, resp, ipv4,
                   ipv6, v4Record, v4Success, v4Err, v6Success, v6Err>>
    /\ \E o \in Outcomes(ctx) :
          LET got == getCurrentRecord(RecordTypeAAAA,
                                      GetDNSRecords(o, zone[RecordTypeAAAA]))
          IN /\ calls' = Append(calls, List(RecordTypeAAAA, o))
             /\ IF got.err # Nil
                THEN /\ Return(StatusAuthError, got.err)
                     /\ UNCHANGED v6Record
                ELSE /\ v6Record' = got.record
                     /\ pc' = "needsUpdate"
                     /\ UNCHANGED <<status, err>>

\* Run, step 3: nothing to update ends the run with StatusNoChange.
NeedsUpdate ==
    /\ pc = "needsUpdate"
    /\ impl = Part003
    /\ proc = "run"
    /\ UNCHANGED <<fixed, host, impl, IPAddr, cfgIPv6, zone0, EnableIPv6, zone, svc, resp, ipv4,
                   ipv6, v4Record, v6Record, v4Success, v4Err, v6Success,
                   v6Err, calls>>
    /\ IF ~needsUpdate(ipv4, ipv6, v4Record, v6Record, EnableIPv6)
       THEN Return(StatusNoChange, Nil)
       ELSE /\ pc' = "updateA"
            /\ UNCHANGED <<status, err>>

\* updateRecords, the IPv4 half: the A record is created or updated when
\* it is stale, and counts as a success when it is not.
UpdateA ==
    /\ pc = "updateA"
    /\ impl = Part003
    /\ proc = "run"
    /\ pc' = "updateAAAA"
    /\ UNCHANGED <<fixed, host, impl, IPAddr, cfgIPv6, zone0, EnableIPv6, svc, resp, ipv4,
                   ipv6, v4Record, v6Record, v6Success, v6Err, status, err>>
    /\ IF Stale(ipv4, v4Record)
       THEN \E o \in Outcomes(ctx) :
               LET c == updateCall(RecordTypeA, v4Record, ipv4)
               IN /\ calls' = Append(calls, Ended(c, o))
                  /\ v4Success' = (o = "ok")
                  /\ v4Err' = MutateErr(o)
                  /\ zone' = IF o = "ok" THEN ZoneAfter(zone, c) ELSE zone
       ELSE /\ v4Success' = TRUE
            /\ UNCHANGED <<v4Err, zone, calls>>

\* updateRecords, the IPv6 half and the result: Run returns what
\* updateRecords returns.
UpdateAAAA ==
    /\ pc = "updateAAAA"
    /\ impl = Part003
    /\ proc = "run"
    /\ UNCHANGED <<fixed, host, impl, IPAddr, cfgIPv6, zone0, EnableIPv6, svc, resp, ipv4,
                   ipv6, v4Record, v6Record, v4Success, v4Err>>
    /\ IF EnableIPv6 /\ Stale(ipv6, v6Record)
       THEN \E o \in Outcomes(ctx) :
               LET c == updateCall(RecordTypeAAAA, v6Record, ipv6)
               IN /\ calls' = Append(calls, Ended(c, o))
                  /\ v6Success' = (o = "ok")
                  /\ v6Err' = MutateErr(o)
                  /\ zone' = IF o = "ok" THEN ZoneAfter(zone, c) ELSE zone
       ELSE /\ v6Success' = ~EnableIPv6
            /\ UNCHANGED <<v6Err, zone, calls>>
    /\ Return(updateResult(v4Success, v4Err, v6Success', v6Err')[1],
              updateResult(v4Success, v4Err, v6Success', v6Err')[2])

----------------
(* DNSUpdater of src/internal/updater.go *)

\* getRecords for a request that ended o while the provider held the list
\* records: the pair (records, err) it returns.
getRecords(o, records) ==
    IF o = "ok" THEN [records |-> records, err |-> Nil]
    ELSE [records |-> <<>>, err |-> ListErr(o)]

\* recordID, recordIP and recordProxied (or their IPv6 namesakes) after a
\* query: the fields of records[0], zero values when the list is empty.
LegacyRecord(records) ==
    IF Len(records) > 0 THEN RecordInfo(records[1]) ELSE NilRecord

\* Run after the addresses are settled: the A record is queried only when
\* there is an IPv4 address, the AAAA record only when IPv6 is still on.
LegacyQueries(v4, v6, enable) ==
    IF v4 # <<>> THEN "listA"
    ELSE IF enable /\ v6 # <<>> THEN "listAAAA"
    ELSE "needsUpdate"

\* Run, "If IPv6 is enabled and we don't have an IPv6 yet, detect it".
LegacyDetectIPv6OrGoOn(v4, v6, enable) ==
    IF enable /\ v6 = <<>>
    THEN /\ pc' = "v6request"
         /\ svc' = 1
         /\ calls' = Append(calls, Invoke("DetectIPv6"))
    ELSE /\ pc' = LegacyQueries(v4, v6, enable)
         /\ UNCHANGED <<svc, calls>>

\* Run for an explicit address: what becomes of ipv4, ipv6 and
\* u.EnableIPv6, and the error for an address of neither family.
LegacyClassify(ip, enable) ==
    IF IsIPv4(ip)
    THEN [ipv4 |-> ip, ipv6 |-> <<>>, enable |-> enable, err |-> Nil]
    ELSE IF IsIPv6(ip)
    THEN [ipv4 |-> <<>>, ipv6 |-> ip, enable |-> FALSE, err |-> Nil]
    ELSE [ipv4 |-> <<>>, ipv6 |-> <<>>, enable |-> enable,
          err |-> <<"invalid IP address provided">>]

\* Run up to the first outbound call: detectIPv4 is entered, or the
\* explicit address is classified.
LegacyStart ==
    /\ pc = "start"
    /\ impl = Legacy
    /\ proc = "run"
    /\ UNCHANGED <<fixed, host, impl, IPAddr, cfgIPv6, zone0, zone, resp, v4Record,
                   v6Record, v4Success, v4Err, v6Success, v6Err>>
    /\ IF IPAddr = <<>>
       THEN /\ pc' = "v4request"
            /\ svc' = 1
            /\ calls' = Append(calls, Invoke("DetectIPv4"))
            /\ UNCHANGED <<ipv4, ipv6, EnableIPv6, status, err>>
       ELSE LET given == LegacyClassify(IPAddr, EnableIPv6)
            IN IF given.err # Nil
               THEN /\ Return(LegacyNoStatus, given.err)
                    /\ UNCHANGED <<ipv4, ipv6, EnableIPv6, svc, calls>>
               ELSE /\ ipv4' = given.ipv4
                    /\ ipv6' = given.ipv6
                    /\ EnableIPv6' = given.enable
                    /\ LegacyDetectIPv6OrGoOn(given.ipv4, given.ipv6,
                                              given.enable)
                    /\ UNCHANGED <<status, err>>

\* detectIPv4: http.Get of the one endpoint and io.ReadAll.
LegacyV4Request ==
    /\ pc = "v4request"
    /\ impl = Legacy
    /\ proc = "run"
    /\ \E r \in Responses4 :
          /\ resp' = r
          /\ calls' = Append(calls, Request(ipv4Services[1], r, RecordTypeA))
    /\ pc' = "v4response"
    /\ UNCHANGED <<fixed, host, impl, IPAddr, cfgIPv6, zone0, EnableIPv6, zone, svc, ipv4, ipv6,
                   v4Record, v6Record, v4Success, v4Err, v6Success, v6Err,
                   status, err>>

\* detectIPv4 returns: an error ends the run; otherwise the body is the
\* IPv4 address as it came.
LegacyV4Response ==
    /\ pc = "v4response"
    /\ impl = Legacy
    /\ proc = "run"
    /\ resp' = NoResp
    /\ UNCHANGED <<fixed, host, impl, IPAddr, cfgIPv6, zone0, EnableIPv6, zone, ipv6, v4Record,
                   v6Record, v4Success, v4Err, v6Success, v6Err>>
    /\ IF resp.err # ""
       THEN /\ Return(LegacyNoStatus, <<resp.err>>)
            /\ UNCHANGED <<ipv4, svc, calls>>
       ELSE /\ ipv4' = resp.body
            /\ LegacyDetectIPv6OrGoOn(resp.body, ipv6, EnableIPv6)
            /\ UNCHANGED <<status, err>>

\* detectIPv6, one turn of the loop up to client.Get and io.ReadAll.
LegacyV6Request ==
    /\ pc = "v6request"
    /\ impl = Legacy
    /\ proc = "run"
    /\ \E r \in Responses6 :
          /\ resp' = r
          /\ calls' = Append(calls, Request(ipv6Services[svc], r, RecordTypeAAAA))
    /\ pc' = "v6response"
    /\ UNCHANGED <<fixed, host, impl, IPAddr, cfgIPv6, zone0, EnableIPv6, zone, svc, ipv4, ipv6,
                   v4Record, v6Record, v4Success, v4Err, v6Success, v6Err,
                   status, err>>

\* detectIPv6, the rest of the turn.
LegacyV6Response ==
    /\ pc = "v6response"
    /\ impl = Legacy
    /\ proc = "run"
    /\ resp' = NoResp
    /\ UNCHANGED <<fixed, host, impl, IPAddr, cfgIPv6, zone0, EnableIPv6, zone, ipv4, v4Record,
                   v6Record, v4Success, v4Err, v6Success, v6Err, calls,
                   status, err>>
    /\ IF DetectedIPv6(resp) # <<>>
       THEN /\ ipv6' = DetectedIPv6(resp)
            /\ pc' = LegacyQueries(ipv4, DetectedIPv6(resp), EnableIPv6)
            /\ UNCHANGED svc
       ELSE IF svc < Len(ipv6Services)
       THEN /\ svc' = svc + 1
            /\ pc' = "v6request"
            /\ UNCHANGED ipv6
       ELSE /\ pc' = "interfaces"
            /\ UNCHANGED <<ipv6, svc>>

\* detectIPv6, the fallback to the interfaces, and what Run makes of the
\* result: no address switches IPv6 off.
LegacyInterfaces ==
    /\ pc = "interfaces"
    /\ impl = Legacy
    /\ proc = "run"
    /\ \E h \in HostChoices :
          LET found == detectIPv6FromInterfaces(h)
              on    == IF found.err = Nil /\ found.ip # <<>> THEN EnableIPv6
                       ELSE FALSE
          IN /\ host' = h
             /\ ipv6' = found.ip
             /\ EnableIPv6' = on
             /\ pc' = LegacyQueries(ipv4, found.ip, on)
    /\ calls' = Append(calls, Invoke("Interfaces"))
    /\ UNCHANGED <<fixed, impl, IPAddr, cfgIPv6, zone0, zone, svc, resp, ipv4, v4Record,
                   v6Record, v4Success, v4Err, v6Success, v6Err, status, err>>

\* Run, "Get current IPv4 record": getRecords for type A.
LegacyListA ==
    /\ pc = "listA"
    /\ impl = Legacy
    /\ proc = "run"
    /\ UNCHANGED <<fixed, host, impl, IPAddr, cfgIPv6, zone0, EnableIPv6, zone, svc, resp,
                   ipv4, ipv6, v6Record, v4Success, v4Err, v6Success, v6Err>>
    /\ \E o \in ProviderOutcomes :
          LET got == getRecords(o, zone[RecordTypeA])
          IN /\ calls' = Append(calls, List(RecordTypeA, o))
             /\ IF got.err # Nil
                THEN /\ Return(LegacyNoStatus, got.err)
                     /\ UNCHANGED v4Record
                ELSE /\ v4Record' = LegacyRecord(got.records)
                     /\ pc' = IF EnableIPv6 /\ ipv6 # <<>> THEN "listAAAA"
                              ELSE "needsUpdate"
                     /\ UNCHANGED <<status, err>>

\* Run, "Get current IPv6 record if enabled": getRecords for type AAAA.
LegacyListAAAA ==
    /\ pc = "listAAAA"
    /\ impl = Legacy
    /\ proc = "run"
    /\ UNCHANGED <<fixed, host, impl, IPAddr, cfgIPv6, zone0, EnableIPv6, zone, svc, resp,
                   ipv4, ipv6, v4Record, v4Success, v4Err, v6Success, v6Err>>
    /\ \E o \in ProviderOutcomes :
          LET got == getRecords(o, zone[RecordTypeAAAA])
          IN /\ calls' = Append(calls, List(RecordTypeAAAA, o))
             /\ IF got.err # Nil
                THEN /\ Return(LegacyNoStatus, got.err)
                     /\ UNCHANGED v6Record
                ELSE /\ v6Record' = LegacyRecord(got.records)
                     /\ pc' = "needsUpdate"
                     /\ UNCHANGED <<status, err>>

\* Run, "Check if IP addresses have changed".
LegacyUnchanged(v4, v6, r4, r6, enable) ==
    /\ v4 # <<>> /\ r4.Content = v4
    /\ (v6 # <<>> /\ r6.Content = v6) \/ ~enable

LegacyNeedsUpdate ==
    /\ pc = "needsUpdate"
    /\ impl = Legacy
    /\ proc = "run"
    /\ UNCHANGED <<fixed, host, impl, IPAddr, cfgIPv6, zone0, EnableIPv6, zone, svc, resp, ipv4,
                   ipv6, v4Record, v6Record, v4Success, v4Err, v6Success,
                   v6Err, calls>>
    /\ IF LegacyUnchanged(ipv4, ipv6, v4Record, v6Record, EnableIPv6)
       THEN Return(StatusNoChange, Nil)
       ELSE /\ pc' = "updateA"
            /\ UNCHANGED <<status, err>>

\* The test Run makes before it writes a record.
LegacyStale(ip, record) ==
    ip # <<>> /\ (record.Content # ip \/ record.ID = "")

\* The call Run makes for a stale record.
LegacyCall(t, record, ip) ==
    IF record.ID = ""
    THEN Call("CreateRecord", t, "", ip, TRUE, "")
    ELSE Call("UpdateRecord", t, record.ID, ip, record.Proxied, "")

\* Run, "Update IPv4 if needed": an error of the call ends the run.
LegacyUpdateA ==
    /\ pc = "updateA"
    /\ impl = Legacy
    /\ proc = "run"
    /\ UNCHANGED <<fixed, host, impl, IPAddr, cfgIPv6, zone0, EnableIPv6, svc, resp, ipv4,
                   ipv6, v4Record, v6Record, v6Success, v6Err, v4Err>>
    /\ IF LegacyStale(ipv4, v4Record)
       THEN \E o \in ProviderOutcomes :
               LET c == LegacyCall(RecordTypeA, v4Record, ipv4)
               IN /\ calls' = Append(calls, Ended(c, o))
                  /\ IF MutateErr(o) # Nil
                     THEN /\ Return(LegacyNoStatus, MutateErr(o))
                          /\ UNCHANGED <<v4Success, zone>>
                     ELSE /\ v4Success' = (o = "ok")
                          /\ zone' = IF o = "ok" THEN ZoneAfter(zone, c)
                                     ELSE zone
                          /\ pc' = "updateAAAA"
                          /\ UNCHANGED <<status, err>>
       ELSE /\ v4Success' = TRUE
            /\ pc' = "updateAAAA"
            /\ UNCHANGED <<zone, calls, status, err>>

\* Run, "Return result".
LegacyResult(s4, s6) ==
    IF s4 \/ s6 THEN <<StatusGood, Nil>>
    ELSE <<LegacyFailed,
           <<"failed to update DNS records due to authentication error">>>>

\* Run, "Update IPv6 if enabled and needed", and the result.
LegacyUpdateAAAA ==
    /\ pc = "updateAAAA"
    /\ impl = Legacy
    /\ proc = "run"
    /\ UNCHANGED <<fixed, host, impl, IPAddr, cfgIPv6, zone0, EnableIPv6, svc, resp, ipv4,
                   ipv6, v4Record, v6Record, v4Success, v4Err, v6Err>>
    /\ IF EnableIPv6 /\ LegacyStale(ipv6, v6Record)
       THEN \E o \in ProviderOutcomes :
               LET c == LegacyCall(RecordTypeAAAA, v6Record, ipv6)
               IN /\ calls' = Append(calls, Ended(c, o))
                  /\ IF MutateErr(o) # Nil
                     THEN /\ Return(LegacyNoStatus, MutateErr(o))
                          /\ UNCHANGED <<v6Success, zone>>
                     ELSE /\ v6Success' = (o = "ok")
                          /\ zone' = IF o = "ok" THEN ZoneAfter(zone, c)
                                     ELSE zone
                          /\ Return(LegacyResult(v4Success, o = "ok")[1],
                                    LegacyResult(v4Success, o = "ok")[2])
       ELSE /\ v6Success' = ~EnableIPv6
            /\ Return(LegacyResult(v4Success, ~EnableIPv6)[1],
                      LegacyResult(v4Success, ~EnableIPv6)[2])
            /\ UNCHANGED <<zone, calls>>

----------------------------------------------------------------------------
(* main of src/unnamed/part_004 *)

\* The value of prev in the first invocation.
NoPrev == [ipv4 |-> <<>>, ipv6 |-> <<>>, enable |-> FALSE, created |-> {}]

\* The values of the three required parameters: each is empty or given.
ArgChoices ==
    [zoneID : {"", "zone"}, apiToken : {"", "token"},
     hostname : {"", Hostname}]

\* A check that forgets the hostname.
MissingCredentialsNoHostname(a) == a.zoneID = "" \/ a.apiToken = ""

\* "Check required parameters".
MissingCredentials(a) ==
    a.zoneID = "" \/ a.apiToken = "" \/ a.hostname = ""

\* The lines main prints (standard output only; flag.Usage writes to
\* standard error).  A line is the list of the operands of fmt.Println.
MissingLines ==
    <<<<"missing-credentials">>,
      <<"Error: zone-id, api-token, and hostname are required">>>>

ErrorLines(e) == <<<<"authentication-error">>, <<"Error:">> \o e>>

ResultLines(result) == <<<<result>>>>

\* main up to the call of Run: with a required parameter missing it prints
\* and exits with status 1, otherwise it creates the updater and runs it.
MainCheck ==
    /\ proc = "main"
    /\ IF MissingCredentials(args)
       THEN /\ printed' = MissingLines
            /\ exit' = <<1>>
            /\ proc' = "exited"
       ELSE /\ proc' = "run"
            /\ UNCHANGED <<printed, exit>>
    /\ UNCHANGED <<runNo, prev, args, host, ctx, impl, IPAddr, cfgIPv6, EnableIPv6,
                   zone, zone0, pc, svc, resp, ipv4, ipv6, v4Record, v6Record, v4Success,
                   v4Err, v6Success, v6Err, calls, status, err>>

\* main after Run has returned: an error is printed as
\* "authentication-error" and the process exits with status 1; otherwise
\* the result is printed and main returns.
MainReport ==
    /\ proc = "run"
    /\ pc = "done"
    /\ IF err # Nil
       THEN /\ printed' = ErrorLines(err)
            /\ exit' = <<1>>
       ELSE /\ printed' = ResultLines(status)
            /\ exit' = <<0>>
    /\ proc' = "exited"
    /\ UNCHANGED <<runNo, prev, args, host, ctx, impl, IPAddr, cfgIPv6, EnableIPv6,
                   zone, zone0, pc, svc, resp, ipv4, ipv6, v4Record, v6Record, v4Success,
                   v4Err, v6Success, v6Err, calls, status, err>>

----------------------------------------------------------------------------
(* The specification *)

Init ==
    /\ runNo = 1
    /\ prev = NoPrev
    /\ args \in ArgChoices
    /\ proc = "main"
    /\ printed = <<>>
    /\ exit = <<>>
    /\ host = NoHost
    /\ ctx = <<>>
    /\ impl \in {Part003, Legacy}
    /\ IPAddr \in ExplicitIPs
    /\ cfgIPv6 \in BOOLEAN
    /\ EnableIPv6 = cfgIPv6
    /\ \E za \in ZoneChoices(RecordTypeA), zb \in ZoneChoices(RecordTypeAAAA) :
          zone = [t \in {RecordTypeA, RecordTypeAAAA} |->
                     IF t = RecordTypeA THEN za ELSE zb]
    /\ zone0 = zone
    /\ pc = "start"
    /\ svc = 0
    /\ resp = NoResp
    /\ ipv4 = <<>>
    /\ ipv6 = <<>>
    /\ v4Record = NilRecord
    /\ v6Record = NilRecord
    /\ v4Success = FALSE
    /\ v4Err = Nil
    /\ v6Success = FALSE
    /\ v6Err = Nil
    /\ calls = <<>>
    /\ status = ""
    /\ err = Nil

Next ==
    \/ MainCheck
    \/ MainReport
    \/ Start
    \/ V4Request
    \/ V4Response
    \/ V6Request
    \/ V6Response
    \/ Interfaces
    \/ ListA
    \/ ListAAAA
    \/ NeedsUpdate
    \/ UpdateA
    \/ UpdateAAAA
    \/ LegacyStart
    \/ LegacyV4Request
    \/ LegacyV4Response
    \/ LegacyV6Request
    \/ LegacyV6Response
    \/ LegacyInterfaces
    \/ LegacyListA
    \/ LegacyListAAAA
    \/ LegacyNeedsUpdate
    \/ LegacyUpdateA
    \/ LegacyUpdateAAAA

Spec == Init /\ [][Next]_vars

----------------------------------------------------------------------------
(* Repeated invocations of the program built on src/unnamed/part_003 *)

\* The number of invocations in a behaviour.
MaxRuns == 2

\* The invocation ended with Run returning no error and every mutation it
\* issued successful.
EndedClean ==
    /\ proc = "exited"
    /\ pc = "done"
    /\ err = Nil
    /\ \A i \in 1..Len(calls) :
          calls[i].op \in {"CreateRecord", "UpdateRecord"}
          => calls[i].out = "ok"

\* After an invocation that ended clean, the program is invoked again with
\* the same arguments, against the zone as that invocation left it (the
\* provider stores what was written).  Nothing of the previous invocation
\* is kept by the program; prev records for the properties what the
\* previous invocation resolved and which families it created.
Rerun ==
    /\ EndedClean
    /\ runNo < MaxRuns
    /\ runNo' = runNo + 1
    /\ prev' = [ipv4 |-> ipv4,
                ipv6 |-> ipv6,
                enable |-> EnableIPv6,
                created |-> {calls[i].type :
                                i \in {j \in 1..Len(calls) :
                                          /\ calls[j].op = "CreateRecord"
                                          /\ calls[j].out = "ok"}}]
    /\ proc' = "main"
    /\ printed' = <<>>
    /\ exit' = <<>>
    /\ host' = NoHost
    /\ ctx' = <<>>
    /\ EnableIPv6' = cfgIPv6
    /\ zone0' = zone
    /\ pc' = "start"
    /\ svc' = 0
    /\ resp' = NoResp
    /\ ipv4' = <<>>
    /\ ipv6' = <<>>
    /\ v4Record' = NilRecord
    /\ v6Record' = NilRecord
    /\ v4Success' = FALSE
    /\ v4Err' = Nil
    /\ v6Success' = FALSE
    /\ v6Err' = Nil
    /\ calls' = <<>>
    /\ status' = ""
    /\ err' = Nil
    /\ UNCHANGED <<args, impl, IPAddr, cfgIPv6, zone>>

\* The program built on src/unnamed/part_003, invoked with its required
\* parameters and with no explicit address or a well-formed one.
InitRepeat ==
    /\ Init
    /\ impl = Part003
    /\ ~MissingCredentials(args)
    /\ IPAddr \in {<<>>, Addr4a, Addr6a}

NextRepeat ==
    \/ MainCheck
    \/ MainReport
    \/ Start
    \/ V4Request
    \/ V4Response
    \/ V6Request
    \/ V6Response
    \/ Interfaces
    \/ ListA
    \/ ListAAAA
    \/ NeedsUpdate
    \/ UpdateA
    \/ UpdateAAAA
    \/ Rerun

SpecRepeat == InitRepeat /\ [][NextRepeat]_vars

----------------------------------------------------------------------------
(* The deadline of Run of src/unnamed/part_003 *)

\* The deadline of the context Run creates expires while Run is under way;
\* ctx keeps where the run was and how many calls it had made.
Expire ==
    /\ impl = Part003
    /\ proc = "run"
    /\ pc # "done"
    /\ ctx = <<>>
    /\ ctx' = <<[pc |-> pc, at |-> Len(calls)]>>
    /\ UNCHANGED <<runNo, prev, args, proc, printed, exit, host, impl, IPAddr,
                   cfgIPv6, EnableIPv6, zone, zone0, pc, svc, resp, ipv4, ipv6,
                   v4Record, v6Record, v4Success, v4Err, v6Success, v6Err,
                   calls, status, err>>

\* One invocation of the program built on src/unnamed/part_003, given its
\* required parameters.
InitDeadline ==
    /\ Init
    /\ impl = Part003
    /\ ~MissingCredentials(args)
    /\ IPAddr \in {<<>>, Addr4a, Addr6a}

NextDeadline ==
    \/ MainCheck
    \/ MainReport
    \/ Start
    \/ V4Request
    \/ V4Response
    \/ V6Request
    \/ V6Response
    \/ Interfaces
    \/ ListA
    \/ ListAAAA
    \/ NeedsUpdate
    \/ UpdateA
    \/ UpdateAAAA
    \/ Expire

SpecDeadline == InitDeadline /\ [][NextDeadline]_vars

\* The steps of the program: each is a piece of sequential code that ends
\* once the call it makes has returned or timed out.
Step ==
    \/ MainCheck
    \/ MainReport
    \/ Start
    \/ V4Request
    \/ V4Response
    \/ V6Request
    \/ V6Response
    \/ Interfaces
    \/ ListA
    \/ ListAAAA
    \/ NeedsUpdate
    \/ UpdateA
    \/ UpdateAAAA

\* Invocations with no explicit address or the explicit address 1.2.3.4,
\* against a zone that has no record of a type or one that is stale.
InitTerminates ==
    /\ InitDeadline
    /\ IPAddr \in {<<>>, Addr4a}
    /\ zone[RecordTypeA] \in {<<>>, <<Rec("a1", Addr4b, TRUE)>>}
    /\ zone[RecordTypeAAAA] \in {<<>>, <<Rec("b1", Addr6b, FALSE)>>}

\* The behaviours in which every outbound call returns or times out in the
\* end: a step that can be taken is taken.
SpecTerminates == InitTerminates /\ [][NextDeadline]_vars /\ WF_vars(Step)

----------------------------------------------------------------------------
(* Vocabulary of the properties *)

Done == pc = "done"

Families == {RecordTypeA, RecordTypeAAAA}

\* The calls of the log with the operation op.
Issued(op) == {i \in 1..Len(calls) : calls[i].op = op}

\* The calls of the log with the operation op for the record type t.
Ops(op, t) == {i \in Issued(op) : calls[i].type = t}

Mutating(t) == Ops("CreateRecord", t) \cup Ops("UpdateRecord", t)

NoMutation == \A t \in Families : Mutating(t) = {}

\* A ListRecords of the run failed.
ListFailed == \E i \in Issued("ListRecords") : calls[i].out # "ok"

\* The address the run resolved for a family, <<>> when none.
Resolved(t) == IF t = RecordTypeA THEN ipv4 ELSE ipv6

\* The family has a resolved address and its handling is enabled (the A
\* family is always enabled).
Handled(t) ==
    IF t = RecordTypeA THEN ipv4 # <<>> ELSE EnableIPv6 /\ ipv6 # <<>>

\* The first remote record of the family exists and holds the resolved
\* address.
Fresh(t) == zone0[t] # <<>> /\ zone0[t][1].Content = Resolved(t)

\* The first remote record of the family exists and holds something else.
Differs(t) == zone0[t] # <<>> /\ zone0[t][1].Content # Resolved(t)

\* The family requires a change.
RequiresChange(t) == Handled(t) /\ ~Fresh(t)

\* ListRecords for the family succeeded and returned no record.
ListedNone(t) ==
    /\ zone0[t] = <<>>
    /\ \E i \in Ops("ListRecords", t) : calls[i].out = "ok"

\* The run issued exactly one UpdateRecord for the family, and it carries
\* the identifier and the proxied flag of the first record of the family's
\* list, the hostname, and the resolved address.
UpdateSent(t) ==
    /\ Cardinality(Ops("UpdateRecord", t)) = 1
    /\ \A i \in Ops("UpdateRecord", t) :
          /\ calls[i].id = zone0[t][1].ID
          /\ calls[i].proxied = zone0[t][1].Proxied
          /\ calls[i].name = Hostname
          /\ calls[i].content = Resolved(t)

\* The run issued exactly one CreateRecord for the family, for the
\* hostname, with the resolved address and proxied=true.
CreateSent(t) ==
    /\ Cardinality(Ops("CreateRecord", t)) = 1
    /\ \A i \in Ops("CreateRecord", t) :
          /\ calls[i].name = Hostname
          /\ calls[i].content = Resolved(t)
          /\ calls[i].proxied = TRUE

\* The mutation of the family was attempted and failed / succeeded.
MutationFailed(t) == \E i \in Mutating(t) : calls[i].out # "ok"

MutationSucceeded(t) == \E i \in Mutating(t) : calls[i].out = "ok"

\* Every endpoint of DetectIPv4 was asked, none of them gave an IPv4
\* address, and the last response has been dealt with.
V4Failed ==
    /\ pc # "v4response"
    /\ {calls[i].id : i \in {j \in Ops("GET", RecordTypeA) :
                                calls[j].out = "none"}}
         = {ipv4Services[k] : k \in 1..Len(ipv4Services)}

\* No step of detection was taken: neither detector was invoked, no
\* endpoint was asked, the interfaces were not read.
NoDetection ==
    /\ Issued("DetectIPv4") = {}
    /\ Issued("DetectIPv6") = {}
    /\ Issued("GET") = {}
    /\ Issued("Interfaces") = {}

----------------------------------------------------------------------------
(* C1 *)

\* C1, as stated (read for the runs that resolved their addresses and went
\* on to the record queries): whenever every handled family's first remote
\* record holds the resolved address, Run issues no CreateRecord or
\* UpdateRecord and returns StatusNoChange with a nil error.
C1_AsStated ==
    (/\ impl = Part003
     /\ Done
     /\ Issued("ListRecords") # {}
     /\ \A t \in Families : Handled(t) => Fresh(t))
    => (status = StatusNoChange /\ err = Nil /\ NoMutation)

\* C1, amended: the same for the runs in which no ListRecords failed.  (The
\* A record is queried even when no IPv4 address was resolved, and a failed
\* query ends the run with an error.)
C1_NoChange ==
    (/\ impl = Part003
     /\ Done
     /\ Issued("ListRecords") # {}
     /\ ~ListFailed
     /\ \A t \in Families : Handled(t) => Fresh(t))
    => (status = StatusNoChange /\ err = Nil /\ NoMutation)

\* Both families are handled and fresh, and the run has ended.
C1_Witness ==
    /\ impl = Part003
    /\ Done
    /\ ~ListFailed
    /\ \A t \in Families : Handled(t) /\ Fresh(t)
    /\ status = StatusNoChange

----------------------------------------------------------------------------
(* C2 *)

\* C2, as stated: when the first remote record of a handled family holds
\* something else than the resolved address, the run issues UpdateRecord
\* for the family with the identifier and the proxied flag of that record
\* and the resolved address, and no CreateRecord for the family.
C2_AsStated ==
    (impl = Part003 /\ Done)
    => \A t \in Families :
          (Handled(t) /\ Differs(t))
          => (UpdateSent(t) /\ Ops("CreateRecord", t) = {})

\* C2, amended: the same for the runs in which no ListRecords failed.
C2_UpdateInPlace ==
    (impl = Part003 /\ Done /\ ~ListFailed)
    => \A t \in Families :
          (Handled(t) /\ Differs(t))
          => (UpdateSent(t) /\ Ops("CreateRecord", t) = {})

\* A run that updated an A record with proxied=false and an AAAA record
\* with proxied=true.
C2_Witness ==
    /\ impl = Part003
    /\ Done
    /\ \A t \in Families : Handled(t) /\ Differs(t) /\ UpdateSent(t)
    /\ ~zone0[RecordTypeA][1].Proxied
    /\ zone0[RecordTypeAAAA][1].Proxied

----------------------------------------------------------------------------
(* C3 *)

\* C3, as stated: when ListRecords for a handled family succeeded and
\* returned no record, the run issues exactly one CreateRecord for the
\* family, with the hostname, the resolved address and proxied=true, and
\* no UpdateRecord for the family.
C3_AsStated ==
    (impl = Part003 /\ Done)
    => \A t \in Families :
          (Handled(t) /\ ListedNone(t))
          => (CreateSent(t) /\ Ops("UpdateRecord", t) = {})

\* C3, amended: the same for the runs in which no ListRecords failed.
C3_CreateWhenAbsent ==
    (impl = Part003 /\ Done /\ ~ListFailed)
    => \A t \in Families :
          (Handled(t) /\ ListedNone(t))
          => (CreateSent(t) /\ Ops("UpdateRecord", t) = {})

\* A run that created both records.
C3_Witness ==
    /\ impl = Part003
    /\ Done
    /\ \A t \in Families : Handled(t) /\ ListedNone(t) /\ CreateSent(t)

----------------------------------------------------------------------------
(* C4 *)

\* C4: in a run where both families require a change, the IPv4 mutation
\* fails (by an error or by success=false) and the IPv6 mutation succeeds,
\* Run returns StatusGood with a nil error.
C4_PartialSuccess ==
    (/\ impl = Part003
     /\ Done
     /\ \A t \in Families : RequiresChange(t)
     /\ MutationFailed(RecordTypeA)
     /\ MutationSucceeded(RecordTypeAAAA))
    => (status = StatusGood /\ err = Nil)

----------------------------------------------------------------------------
(* C5 *)

\* C5: in a run where both families require a change and both mutations
\* fail, Run returns a failure with a non-nil error, and when the AAAA
\* mutation (the last one attempted) gave an error, that is the error
\* reported.
C5_LastError ==
    (/\ impl = Part003
     /\ Done
     /\ \A t \in Families : RequiresChange(t) /\ MutationFailed(t))
    => /\ status = StatusAuthError
       /\ err # Nil
       /\ v6Err # Nil => err = Wrap("update IPv6 record", v6Err)

----------------------------------------------------------------------------
(* C6 *)

\* C6: in a run where both families require a change and the A mutation
\* was attempted and failed (by an error or by success=false), the AAAA
\* mutation is attempted.
C6_Independent ==
    (/\ Done
     /\ \A t \in Families : RequiresChange(t)
     /\ MutationFailed(RecordTypeA))
    => Mutating(RecordTypeAAAA) # {}

----------------------------------------------------------------------------
(* C7 *)

\* C7: once a ListRecords has failed (transport error, unparsable payload
\* or success=false) the run has ended with StatusAuthError and a non-nil
\* error, and it has issued no CreateRecord and no UpdateRecord.
C7_QueryFatal ==
    (impl = Part003 /\ ListFailed)
    => (Done /\ status = StatusAuthError /\ err # Nil /\ NoMutation)

\* The AAAA query failed on an unparsable payload after the A query had
\* returned no record for a resolved IPv4 address.
C7_Witness ==
    /\ impl = Part003
    /\ Done
    /\ Handled(RecordTypeA)
    /\ ListedNone(RecordTypeA)
    /\ \E i \in Ops("ListRecords", RecordTypeAAAA) :
          calls[i].out = "unparsable"

----------------------------------------------------------------------------
(* C8 *)

\* C8: with no explicit address, once every endpoint of DetectIPv4 has
\* failed or returned a body that is no IPv4 address, the run has ended
\* with StatusAuthError and a non-nil error, and it has issued no IPv6
\* detection, no ListRecords and no mutating call.
C8_DetectionFatal ==
    (impl = Part003 /\ IPAddr = <<>> /\ V4Failed)
    => /\ Done
       /\ status = StatusAuthError
       /\ err # Nil
       /\ Issued("DetectIPv6") = {}
       /\ Ops("GET", RecordTypeAAAA) = {}
       /\ Issued("Interfaces") = {}
       /\ Issued("ListRecords") = {}
       /\ NoMutation

\* IPv4 detection failed in a run configured with IPv6 enabled.
C8_Witness ==
    /\ impl = Part003
    /\ IPAddr = <<>>
    /\ cfgIPv6
    /\ V4Failed
    /\ Done

----------------------------------------------------------------------------
(* C9 *)

\* C9: a non-empty explicit address is classified before any outbound
\* call: nothing is issued before the classification; after it an IPv4
\* literal is the IPv4 address (and DetectIPv4 is not invoked), otherwise
\* an IPv6 literal is the IPv6 address, otherwise the run has ended with
\* the invalid-address error and an empty call log.
C9_Classified ==
    (impl = Part003 /\ IPAddr # <<>>)
    => /\ pc = "start" => calls = <<>>
       /\ pc # "start" =>
             IF IsIPv4(IPAddr)
             THEN ipv4 = IPAddr /\ Issued("DetectIPv4") = {}
             ELSE IF IsIPv6(IPAddr)
             THEN ipv6 = IPAddr /\ ipv4 = <<>>
             ELSE /\ Done
                  /\ status = StatusAuthError
                  /\ err = <<"IP detection failed",
                             "invalid IP address provided">>
                  /\ calls = <<>>

\* A run ended on an explicit address of neither family.
C9_Witness ==
    /\ impl = Part003
    /\ IPAddr # <<>>
    /\ ~IsIPv4(IPAddr)
    /\ ~IsIPv6(IPAddr)
    /\ Done

----------------------------------------------------------------------------
(* C10 *)

\* C10: with an explicit IPv6 literal, whatever the configured IPv6 flag,
\* in either implementation: no detection takes place, IPv6 handling is
\* off once the address is classified, no IPv4 address is resolved, no
\* AAAA ListRecords is issued, no CreateRecord or UpdateRecord is issued,
\* and the zone stays as it was.
C10_ExplicitIPv6 ==
    IsIPv6(IPAddr)
    => /\ NoDetection
       /\ pc # "start" => (~EnableIPv6 /\ ipv4 = <<>> /\ ipv6 = IPAddr)
       /\ Ops("ListRecords", RecordTypeAAAA) = {}
       /\ NoMutation
       /\ zone = zone0

\* A run with an explicit IPv6 literal and the IPv6 flag configured on has
\* ended, while the remote AAAA record holds another address.
C10_Witness ==
    /\ IsIPv6(IPAddr)
    /\ cfgIPv6
    /\ Done
    /\ zone0[RecordTypeAAAA] # <<>>
    /\ zone0[RecordTypeAAAA][1].Content # IPAddr

----------------------------------------------------------------------------
(* C11 *)

\* DetectIPv6 has failed: the interfaces were read (which happens after the
\* last endpoint) and gave no address.
V6DetectionFailed ==
    host # NoHost /\ detectIPv6FromInterfaces(host).err # Nil

\* The outcome of a run that handles the A family alone, as a function of
\* the resolved IPv4 address, the A records and how the A calls ended.
V4OnlyOutcome ==
    LET lo == calls[CHOOSE i \in Ops("ListRecords", RecordTypeA) : TRUE].out
    IN IF lo # "ok"
       THEN <<StatusAuthError, Wrap("get A records", ListErr(lo))>>
       ELSE IF ipv4 = <<>> \/ Fresh(RecordTypeA)
       THEN <<StatusNoChange, Nil>>
       ELSE IF Mutating(RecordTypeA) = {}
       THEN <<"no outcome", Nil>>
       ELSE LET mo == calls[CHOOSE i \in Mutating(RecordTypeA) : TRUE].out
            IN IF MutateErr(mo) # Nil
               THEN <<StatusAuthError,
                      Wrap("update IPv4 record", MutateErr(mo))>>
               ELSE <<StatusGood, Nil>>

\* C11: a failure of DetectIPv6 is not fatal.  Once it has failed, IPv6
\* handling is off and stays off, no AAAA ListRecords and no AAAA mutation
\* is issued, the run goes on to query the A record, and it returns what
\* V4OnlyOutcome gives; the runs with the IPv6 flag configured off return
\* what V4OnlyOutcome gives as well, so the two outcomes are the same.
C11_IPv6FailureTolerated ==
    impl = Part003
    => /\ V6DetectionFailed
          => /\ ~EnableIPv6
             /\ ipv6 = <<>>
             /\ Ops("ListRecords", RecordTypeAAAA) = {}
             /\ Mutating(RecordTypeAAAA) = {}
             /\ Done => /\ Cardinality(Ops("ListRecords", RecordTypeA)) = 1
                         /\ <<status, err>> = V4OnlyOutcome
       /\ (~cfgIPv6 /\ Done /\ Issued("ListRecords") # {})
          => <<status, err>> = V4OnlyOutcome

\* IPv6 was configured on, its detection failed, and the run went on to
\* change the A record.
C11_Witness ==
    /\ impl = Part003
    /\ cfgIPv6
    /\ V6DetectionFailed
    /\ Done
    /\ MutationSucceeded(RecordTypeA)
    /\ status = StatusGood

----------------------------------------------------------------------------
(* C12 *)

\* The endpoints of the detector of a family.
Services(t) == IF t = RecordTypeA THEN ipv4Services ELSE ipv6Services

\* The detection requests of a family, in the order they were made.
IsGet(c, t) == c.op = "GET" /\ c.type = t

Gets(t) == SelectSeq(calls, LAMBDA c : IsGet(c, t))

\* The detector of the family is between a request and the use of its
\* response.
InFlight(t) ==
    IF t = RecordTypeA THEN pc = "v4response" ELSE pc = "v6response"

\* C12: the k-th request of a detector goes to the k-th endpoint of its
\* list (so the order is that of the list and no endpoint is asked twice),
\* every request but the last found no address of the family (so nothing
\* is asked after the first success), and once the response is dealt with
\* an address found by the last request is the address of the family; the
\* IPv4 address of a run without explicit address is never anything else.
C12_EndpointOrder ==
    impl = Part003
    => \A t \in Families :
          LET g == Gets(t)
          IN /\ Len(g) <= Len(Services(t))
             /\ \A k \in 1..Len(g) : g[k].id = Services(t)[k]
             /\ \A k \in 1..(Len(g) - 1) : g[k].out = "none"
             /\ (Len(g) > 0 /\ g[Len(g)].out = "address" /\ ~InFlight(t))
                => Resolved(t) = g[Len(g)].content
             /\ (t = RecordTypeA /\ IPAddr = <<>> /\ ipv4 # <<>>)
                => (g[Len(g)].out = "address" /\ ipv4 = g[Len(g)].content)

\* E1 and E2 yield no address, E3 returns a valid one: DetectIPv4 has made
\* one request to each and returned E3's address.
C12_Witness ==
    /\ impl = Part003
    /\ Len(Gets(RecordTypeA)) = 3
    /\ Gets(RecordTypeA)[1].out = "none"
    /\ Gets(RecordTypeA)[2].out = "none"
    /\ Gets(RecordTypeA)[3].out = "address"
    /\ ipv4 = Addr4a
    /\ Done

----------------------------------------------------------------------------
(* C13 *)

\* The positions <<i, j>> of the addresses of a host that qualify: address
\* j of interface i, the interface up and not loopback, the address one
\* the code can read (a *net.IPNet), not IPv4, not link-local, and
\* global-unicast.
Qualifying(h) ==
    {p \in UNION {{<<i, j>> : j \in 1..Len(h.ifaces[i].addrs)} :
                     i \in 1..Len(h.ifaces)} :
        /\ h.ifaces[p[1]].up
        /\ ~h.ifaces[p[1]].loopback
        /\ h.ifaces[p[1]].addrs[p[2]].ipnet
        /\ ~To4(h.ifaces[p[1]].addrs[p[2]].ip)
        /\ ~IsLinkLocalUnicast(h.ifaces[p[1]].addrs[p[2]].ip)
        /\ IsGlobalUnicast(h.ifaces[p[1]].addrs[p[2]].ip)}

\* The first of them in the order of enumeration.
FirstQualifying(h) ==
    CHOOSE p \in Qualifying(h) :
        \A q \in Qualifying(h) :
            p[1] < q[1] \/ (p[1] = q[1] /\ p[2] <= q[2])

\* Every endpoint of DetectIPv6 was asked and none gave an IPv6 address.
V6EndpointsFailed ==
    /\ Len(Gets(RecordTypeAAAA)) = Len(ipv6Services)
    /\ \A k \in 1..Len(ipv6Services) : Gets(RecordTypeAAAA)[k].out = "none"

\* C13: IPv4 detection that has exhausted its endpoints has failed, and
\* the run has not read the interfaces.  The interfaces are read only by
\* DetectIPv6 and only after each of its endpoints has failed or returned
\* no IPv6 address, and then they are read; the IPv6 address is then the
\* first qualifying address of the host, and DetectIPv6 fails (IPv6 off,
\* no IPv6 address) only when no address qualifies.
C13_Exhaustion ==
    impl = Part003
    => /\ (IPAddr = <<>> /\ V4Failed)
          => /\ Done
             /\ err = <<"IP detection failed", "detect IPv4",
                        "failed to detect public IPv4 address">>
             /\ host = NoHost
             /\ Issued("Interfaces") = {}
       /\ host # NoHost
          => /\ Issued("DetectIPv6") # {}
             /\ V6EndpointsFailed
             /\ IF host.err \/ Qualifying(host) = {}
                THEN ipv6 = <<>> /\ ~EnableIPv6
                ELSE LET p == FirstQualifying(host)
                     IN /\ ipv6 = IPString(host.ifaces[p[1]].addrs[p[2]].ip)
                        /\ EnableIPv6
       /\ (V6EndpointsFailed /\ pc \notin {"v6response", "interfaces"})
          => host # NoHost

\* The fallback found the address 2001:db8::2 behind an address that is no
\* *net.IPNet, an IPv4 address and a link-local address.
C13_Witness ==
    /\ impl = Part003
    /\ host # NoHost
    /\ Qualifying(host) # {}
    /\ FirstQualifying(host) = <<1, 4>>
    /\ ipv6 = Addr6b
    /\ Done

----------------------------------------------------------------------------
(* C14 *)

\* The request failed as an endpoint failure is defined: no response
\* (network error), a status that is not 2xx, or a body that is no
\* address of the family.
EndpointFailed(c) == c.code \notin 200..299 \/ c.out = "none"

\* The detector of the family has run out of endpoints: IPv4 detection
\* has failed, IPv6 detection has turned to the interfaces.
Exhausted(t) ==
    IF t = RecordTypeA
    THEN Done /\ err = <<"IP detection failed", "detect IPv4",
                         "failed to detect public IPv4 address">>
    ELSE pc = "interfaces" \/ host # NoHost

\* The detector of the family has gone on from endpoint k to the next: it
\* is about to ask endpoint k + 1, or has asked it.
MovedOn(t, k) ==
    \/ Len(Gets(t)) > k
    \/ /\ pc = IF t = RecordTypeA THEN "v4request" ELSE "v6request"
       /\ svc = k + 1

\* C14: a detection request that failed (network error, non-2xx status
\* whatever the body, or malformed body) is swallowed: once its response
\* is dealt with, the next endpoint has been asked, or, after the last
\* endpoint, the detector is exhausted; and an error of IPv4 detection is
\* reported only on exhaustion.
C14_FailuresSwallowed ==
    impl = Part003
    => /\ \A t \in Families :
             LET g == Gets(t)
             IN \A k \in 1..Len(g) :
                   (EndpointFailed(g[k]) /\ ~(k = Len(g) /\ InFlight(t)))
                   => IF k < Len(Services(t)) THEN MovedOn(t, k)
                      ELSE Exhausted(t)
       /\ Exhausted(RecordTypeA) => V4Failed

----------------------------------------------------------------------------
(* C15 *)

\* The three documented outcome tokens, as printed lines.
PublicTokens == {<<"good">>, <<"nochg">>, <<"badauth">>}

\* The token documented for the way the invocation ended.
TokenFor(s, e) ==
    IF e # Nil THEN <<"badauth">>
    ELSE IF s = StatusGood THEN <<"good">>
    ELSE IF s = StatusNoChange THEN <<"nochg">>
    ELSE <<"badauth">>

\* C15: an invocation that has ended has printed exactly one of the lines
\* good, nochg, badauth: good after a successful update, nochg when no
\* update was needed, badauth after every failure.
C15_PublicTokens ==
    proc = "exited"
    => /\ Cardinality({k \in 1..Len(printed) :
                          printed[k] \in PublicTokens}) = 1
       /\ printed[1] = TokenFor(status, err)

----------------------------------------------------------------------------
(* C16 *)

\* C16: with the zone identifier, the API token or the hostname empty, the
\* program never starts Run and never issues a call (no detection, no
\* ListRecords, no mutation, no reading of the interfaces), the zone is
\* untouched, and once past the check the program has printed
\* missing-credentials and exited with status 1.
C16_MissingCredentials ==
    (\E f \in {"zoneID", "apiToken", "hostname"} : args[f] = "")
    => /\ calls = <<>>
       /\ pc = "start"
       /\ host = NoHost
       /\ zone = zone0
       /\ proc # "main"
          => /\ proc = "exited"
             /\ exit = <<1>>
             /\ printed[1] = <<"missing-credentials">>

\* An invocation with only the hostname missing has exited.
C16_Witness ==
    /\ args.zoneID # ""
    /\ args.apiToken # ""
    /\ args.hostname = ""
    /\ proc = "exited"
    /\ exit = <<1>>

----------------------------------------------------------------------------
(* C17 *)

\* C17: the configuration of the DNSUpdater is the same when Run returns
\* as when it was called.  ZoneID, APIToken, Hostname and IPAddr are
\* assigned by no step of Run; EnableIPv6 was cfgIPv6 when Run was called,
\* so it is cfgIPv6 when Run has returned.
C17_ConfigImmutable ==
    (impl = Part003 /\ Done) => EnableIPv6 = cfgIPv6

----------------------------------------------------------------------------
(* C18 *)

\* The invocation follows one that ended clean, and it has resolved the
\* same addresses with the same IPv6 handling.
SameAsBefore ==
    /\ runNo > 1
    /\ ipv4 = prev.ipv4
    /\ ipv6 = prev.ipv6
    /\ EnableIPv6 = prev.enable

\* C18, as stated: a run that follows a run in which every required
\* mutation succeeded, with the same configuration and the same resolved
\* addresses, issues no CreateRecord and no UpdateRecord and returns
\* StatusNoChange; and no run that follows such a run creates a record of
\* a family the previous run created.
C18_AsStated ==
    /\ (Done /\ SameAsBefore /\ Issued("ListRecords") # {})
       => (NoMutation /\ status = StatusNoChange /\ err = Nil)
    /\ runNo > 1
       => \A t \in prev.created : Ops("CreateRecord", t) = {}

\* C18, amended: the same for the following runs in which no ListRecords
\* failed (a failed query ends the following run with StatusAuthError; it
\* still issues no mutation).
C18_Idempotent ==
    /\ (Done /\ SameAsBefore /\ Issued("ListRecords") # {})
       => /\ NoMutation
          /\ ~ListFailed => (status = StatusNoChange /\ err = Nil)
    /\ runNo > 1
       => \A t \in prev.created : Ops("CreateRecord", t) = {}

\* The first run created both records; the second run, with the same
\* addresses, has found nothing to change.
C18_Witness ==
    /\ runNo = 2
    /\ prev.created = Families
    /\ Done
    /\ SameAsBefore
    /\ ipv4 # <<>>
    /\ ipv6 # <<>>
    /\ ~ListFailed
    /\ status = StatusNoChange
    /\ \A t \in Families : Len(zone[t]) = 1

----------------------------------------------------------------------------
(* C19 *)

\* C19: of the records ListRecords returns for a family only the first
\* counts, in either implementation.  A mutation of the family is issued
\* only when there is no record or the first one holds something else than
\* the resolved address, and a run that ends in success has updated a
\* family whose first record differed, whatever the other records hold;
\* every UpdateRecord carries the identifier and the proxied flag of the
\* first record; and the other records stay in the zone as they were.
C19_FirstRecordOnly ==
    \A t \in Families :
       /\ Mutating(t) # {} => ~Fresh(t)
       /\ (Done /\ err = Nil /\ status = StatusGood
             /\ Handled(t) /\ Differs(t))
          => Ops("UpdateRecord", t) # {}
       /\ \A i \in Ops("UpdateRecord", t) :
             /\ calls[i].id = zone0[t][1].ID
             /\ calls[i].proxied = zone0[t][1].Proxied
       /\ Len(zone[t]) >= Len(zone0[t])
       /\ \A k \in 2..Len(zone0[t]) : zone[t][k] = zone0[t][k]

\* Two A records, the first stale and the second current: the run has
\* updated the first and left the second alone.
C19_Witness ==
    /\ Len(zone0[RecordTypeA]) = 2
    /\ zone0[RecordTypeA][1].Content # ipv4
    /\ zone0[RecordTypeA][2].Content = ipv4
    /\ MutationSucceeded(RecordTypeA)
    /\ zone[RecordTypeA][1].Content = ipv4
    /\ zone[RecordTypeA][2] = zone0[RecordTypeA][2]
    /\ Done

----------------------------------------------------------------------------
(* C20 *)

\* A decimal octet in [0,255]: digits, at least one, of a value up to 255.
DecimalOctet(p) == p # <<>> /\ AllIn(p, Digit) /\ DecVal(p) <= 255

\* A dotted quad: four decimal octets in [0,255] separated by dots.
DottedQuad(a) ==
    /\ Len(Split(a, ".")) = 4
    /\ \A k \in 1..4 : DecimalOctet(Split(a, ".")[k])

\* The candidates that are IPv6 literals not representable as IPv4.
V6Literals == {Addr6a, Addr6b, Addr6lo}

\* The candidates that are no address: the empty string, an octet above
\* 255, a wrong number of octets, surrounding white space, text.
NonAddresses ==
    {<<>>,
     <<"2", "5", "6", ".", "1", ".", "1", ".", "1">>,
     <<"1", ".", "2", ".", "3">>,
     Addr4a \o <<".", "5">>,
     <<" ">> \o Addr4a,
     Addr4a \o <<"\n">>,
     Garbage}

\* C20: for the explicit address a of the invocation, IsIPv4(a) and
\* IsIPv6(a) are never both true; IsIPv4 alone is true when a is a dotted
\* quad of four decimal octets in [0,255]; IsIPv6 alone is true when a is
\* an IPv6 literal not representable as IPv4; both are false when a is no
\* address.
C20_Classification ==
    /\ ~(IsIPv4(IPAddr) /\ IsIPv6(IPAddr))
    /\ DottedQuad(IPAddr) => (IsIPv4(IPAddr) /\ ~IsIPv6(IPAddr))
    /\ IPAddr \in V6Literals => (IsIPv6(IPAddr) /\ ~IsIPv4(IPAddr))
    /\ IPAddr \in NonAddresses => (~IsIPv4(IPAddr) /\ ~IsIPv6(IPAddr))

----------------------------------------------------------------------------
(* C21 *)

\* The calls to the provider: the record queries and the mutations.
ProviderCalls ==
    {i \in 1..Len(calls) :
        calls[i].op \in {"ListRecords", "CreateRecord", "UpdateRecord"}}

\* C21: in a run, DetectIPv4 and DetectIPv6 are each invoked at most once
\* and DetectIPv4 never with an explicit address, ListRecords is issued at
\* most once per family, at most one mutating call is issued per family
\* (so never a create and an update), and no call to the provider follows a
\* failed call of the same operation and family.
C21_NothingRepeated ==
    impl = Part003
    => /\ Cardinality(Issued("DetectIPv4")) <= 1
       /\ Cardinality(Issued("DetectIPv6")) <= 1
       /\ IPAddr # <<>> => Issued("DetectIPv4") = {}
       /\ \A t \in Families :
             /\ Cardinality(Ops("ListRecords", t)) <= 1
             /\ Cardinality(Mutating(t)) <= 1
       /\ \A i \in ProviderCalls : \A j \in ProviderCalls :
             (i < j /\ calls[i].out # "ok")
             => ~(calls[j].op = calls[i].op /\ calls[j].type = calls[i].type)

\* A run that invoked both detectors, queried both families, failed to
\* update the A record and went on to the AAAA record has returned.
C21_Witness ==
    /\ impl = Part003
    /\ Done
    /\ Cardinality(Issued("DetectIPv4")) = 1
    /\ Cardinality(Issued("DetectIPv6")) = 1
    /\ \A t \in Families : Cardinality(Ops("ListRecords", t)) = 1
    /\ \E i \in Mutating(RecordTypeA) : calls[i].out = "transport"
    /\ Cardinality(Mutating(RecordTypeAAAA)) = 1

----------------------------------------------------------------------------
(* C22 *)

\* The positions of a run at which a record query is still to come or
\* under way.
BeforeQueries ==
    {"start", "v4request", "v4response", "v6request", "v6response",
     "interfaces", "listA", "listAAAA"}

\* The calls made with the context of the run: the detection requests and
\* the requests to the provider.
ContextBound ==
    {i \in 1..Len(calls) :
        calls[i].op \in {"GET", "ListRecords", "CreateRecord", "UpdateRecord"}}

\* The deadline expired before the record queries had completed.
ExpiredEarly == ctx # <<>> /\ ctx[1].pc \in BeforeQueries

\* C22: when the deadline of the run expires before the record queries
\* have completed, every call made with the context after the expiry
\* fails, no CreateRecord or UpdateRecord is issued, and the run ends with
\* StatusAuthError and the error of the detection or of a record query.
C22_Deadline ==
    (impl = Part003 /\ ExpiredEarly)
    => /\ \A i \in ContextBound :
             i > ctx[1].at => calls[i].out \in {"none", "transport"}
       /\ NoMutation
       /\ Done
          => /\ status = StatusAuthError
             /\ err # Nil
             /\ err[1] \in {"IP detection failed", "get A records",
                             "get AAAA records"}

\* The deadline expired after the A record was found stale and before the
\* AAAA query; the run has ended on the failed AAAA query.
C22_Witness ==
    /\ impl = Part003
    /\ Done
    /\ ctx # <<>>
    /\ ctx[1].pc = "listAAAA"
    /\ Differs(RecordTypeA)
    /\ \E i \in Ops("ListRecords", RecordTypeA) : calls[i].out = "ok"
    /\ \E i \in Ops("ListRecords", RecordTypeAAAA) :
          i > ctx[1].at /\ calls[i].out = "transport"
    /\ err[1] = "get AAAA records"

----------------------------------------------------------------------------
(* C23 *)

\* C23: with the configured IPv6 flag false, a run invokes no DetectIPv6,
\* asks no IPv6 endpoint, does not read the interfaces, issues no
\* ListRecords, CreateRecord or UpdateRecord of type AAAA and leaves the
\* AAAA records as they were; and once it has returned, a successful A
\* mutation means StatusGood with a nil error.
C23_IPv6Disabled ==
    (impl = Part003 /\ ~cfgIPv6)
    => /\ Issued("DetectIPv6") = {}
       /\ Ops("GET", RecordTypeAAAA) = {}
       /\ Issued("Interfaces") = {}
       /\ Ops("ListRecords", RecordTypeAAAA) = {}
       /\ Mutating(RecordTypeAAAA) = {}
       /\ zone[RecordTypeAAAA] = zone0[RecordTypeAAAA]
       /\ (Done /\ MutationSucceeded(RecordTypeA))
          => (status = StatusGood /\ err = Nil)

\* An IPv4-only run that detected its address, found the A record stale
\* and an AAAA record that holds another address than the host's, and
\* updated the A record.
C23_Witness ==
    /\ impl = Part003
    /\ ~cfgIPv6
    /\ IPAddr = <<>>
    /\ Done
    /\ zone0[RecordTypeAAAA] # <<>>
    /\ zone0[RecordTypeAAAA][1].Content = Addr6b
    /\ \E i \in Ops("UpdateRecord", RecordTypeA) : calls[i].out = "ok"
    /\ status = StatusGood

----------------------------------------------------------------------------
(* C24 *)

\* The run was given a valid IPv4 literal with the IPv6 flag enabled.
ExplicitIPv4WithIPv6 == impl = Part003 /\ IsIPv4(IPAddr) /\ cfgIPv6

\* The run used the explicit value for the A record and no DetectIPv4, and
\* once past the classification it has invoked DetectIPv6 exactly once.
ExplicitUsed ==
    /\ Issued("DetectIPv4") = {}
    /\ Ops("GET", RecordTypeA) = {}
    /\ \A i \in Mutating(RecordTypeA) : calls[i].content = IPAddr
    /\ pc # "start"
       => (ipv4 = IPAddr /\ Cardinality(Issued("DetectIPv6")) = 1)

\* The family was reconciled against the resolved address: nothing was
\* sent for a record that held it, the first record was updated when it
\* held something else, a record was created when there was none.
Reconciled(t) ==
    IF Fresh(t) THEN Mutating(t) = {}
    ELSE IF zone0[t] = <<>>
    THEN CreateSent(t) /\ Ops("UpdateRecord", t) = {}
    ELSE UpdateSent(t) /\ Ops("CreateRecord", t) = {}

\* C24, as stated: with an explicit IPv4 literal and IPv6 enabled the run
\* uses the explicit value without DetectIPv4 and invokes DetectIPv6 once,
\* and when that detection succeeded the run has queried the AAAA record
\* and reconciled it against the detected address.
C24_AsStated ==
    ExplicitIPv4WithIPv6
    => /\ ExplicitUsed
       /\ (Done /\ ipv6 # <<>>)
          => /\ Cardinality(Ops("ListRecords", RecordTypeAAAA)) = 1
             /\ Reconciled(RecordTypeAAAA)

\* C24, amended: the AAAA record is queried when the A query succeeded,
\* and reconciled when both queries succeeded.
C24_ExplicitIPv4 ==
    ExplicitIPv4WithIPv6
    => /\ ExplicitUsed
       /\ (Done /\ ipv6 # <<>>)
          => /\ (\E i \in Ops("ListRecords", RecordTypeA) :
                    calls[i].out = "ok")
                => Cardinality(Ops("ListRecords", RecordTypeAAAA)) = 1
             /\ ~ListFailed
                => (/\ Cardinality(Ops("ListRecords", RecordTypeAAAA)) = 1
                    /\ Reconciled(RecordTypeAAAA))

\* A run with the explicit address 1.2.3.4 and IPv6 enabled got its IPv6
\* address from an endpoint and updated the stale AAAA record with it.
C24_Witness ==
    /\ ExplicitIPv4WithIPv6
    /\ Done
    /\ IPAddr = Addr4a
    /\ \E i \in Ops("GET", RecordTypeAAAA) : calls[i].out = "address"
    /\ ipv6 = Addr6a
    /\ Differs(RecordTypeAAAA)
    /\ \E i \in Ops("UpdateRecord", RecordTypeAAAA) :
          calls[i].content = Addr6a /\ calls[i].out = "ok"

----------------------------------------------------------------------------
(* C25 *)

\* The run attempted a mutation and every mutation it attempted failed.
AllMutationsFailed ==
    /\ ~NoMutation
    /\ \A t \in Families : \A i \in Mutating(t) : calls[i].out # "ok"

\* C25: a run that has returned StatusGood issued a CreateRecord or an
\* UpdateRecord that succeeded; a run whose attempted mutations all failed
\* has returned a failure with a non-nil error.
C25_SuccessNeedsMutation ==
    Done
    => /\ status = StatusGood
          => \E t \in Families : MutationSucceeded(t)
       /\ AllMutationsFailed => (status # StatusGood /\ err # Nil)

----------------------------------------------------------------------------
(* C26 *)

\* C26: when Run has returned StatusNoChange, every family that has a
\* resolved address and is enabled has a remote record, the first record
\* of the family holds the resolved address, and the run has issued no
\* CreateRecord or UpdateRecord.
C26_NoChangeMeansFresh ==
    (Done /\ status = StatusNoChange)
    => /\ err = Nil
       /\ NoMutation
       /\ \A t \in Families : Handled(t) => Fresh(t)

\* A run that handled both families, each with two remote records, has
\* returned StatusNoChange.
C26_Witness ==
    /\ Done
    /\ status = StatusNoChange
    /\ impl = Part003
    /\ \A t \in Families : Handled(t) /\ Len(zone0[t]) = 2

----------------------------------------------------------------------------
(* C27 *)

\* The identifiers of the records the provider held for the family when
\* the run queried it.
ListedIDs(t) == {zone0[t][k].ID : k \in 1..Len(zone0[t])}

\* C27: every CreateRecord and UpdateRecord of type A carries an address
\* for which IsIPv4 holds, every one of type AAAA an address for which
\* IsIPv6 holds, and the identifier of an UpdateRecord is one of the
\* records that the successful ListRecords of its family returned.
C27_RightFamily ==
    impl = Part003
    => /\ \A i \in Mutating(RecordTypeA) : IsIPv4(calls[i].content)
       /\ \A i \in Mutating(RecordTypeAAAA) : IsIPv6(calls[i].content)
       /\ \A t \in Families : \A i \in Ops("UpdateRecord", t) :
             /\ calls[i].id \in ListedIDs(t)
             /\ \E j \in Ops("ListRecords", t) :
                   j < i /\ calls[j].out = "ok"

\* A run that took its IPv4 address from the third endpoint and its IPv6
\* address from the interfaces of the host has updated the A record and
\* the AAAA record.
C27_Witness ==
    /\ impl = Part003
    /\ Done
    /\ Len(Gets(RecordTypeA)) = 3
    /\ Issued("Interfaces") # {}
    /\ ipv6 = Addr6b
    /\ \E i \in Ops("UpdateRecord", RecordTypeA) : calls[i].content = Addr4a
    /\ \E i \in Ops("UpdateRecord", RecordTypeAAAA) :
          calls[i].content = Addr6b /\ calls[i].id = "b1"

----------------------------------------------------------------------------
(* C28 *)

\* The requests of the log to the endpoint url.
RequestsTo(url) == {i \in Issued("GET") : calls[i].id = url}

\* The outbound calls of a run are bounded: at most one request to each
\* endpoint of either list, at most two ListRecords and at most two
\* mutating calls.
BoundedCalls ==
    /\ \A t \in Families : \A k \in 1..Len(Services(t)) :
          Cardinality(RequestsTo(Services(t)[k])) <= 1
    /\ Cardinality(Issued("ListRecords")) <= 2
    /\ Cardinality(Issued("CreateRecord") \cup Issued("UpdateRecord")) <= 2

\* C28: the calls of a run stay within their bounds, Run returns one pair
\* of status and error that nothing changes afterwards, and a run that has
\* been started returns.
C28_Terminates ==
    /\ [](impl = Part003 => BoundedCalls)
    /\ [][Done => (pc' = pc /\ status' = status /\ err' = err)]_vars
    /\ (proc = "run") ~> Done

\* A run that asked every endpoint, queried both families and mutated
\* both records has returned.
C28_Witness ==
    /\ impl = Part003
    /\ Done
    /\ \A t \in Families : Len(Gets(t)) = Len(Services(t))
    /\ Cardinality(Issued("ListRecords")) = 2
    /\ Cardinality(Issued("CreateRecord") \cup Issued("UpdateRecord")) = 2

====
